---- MODULE Spec2Model ----
(***************************************************************************)
(* Permit retrieval layer: the Query Builder (backend/permit/queries.py),  *)
(* the Tool Surface (backend/permit/tools.py) and the gateway handles      *)
(* (backend/client).  Strings are sequences of character codes, so that    *)
(* the string comparisons the queries and the sort rely on are the real    *)
(* lexicographic ones; dates are formatted and parsed as the code does.    *)
(***************************************************************************)
EXTENDS Integers, Sequences, FiniteSets, TLC

VARIABLES db, clock, pc, last, clients

vars == <<db, clock, pc, last, clients>>

(***************************************************************************)
(* Bounds of the model.                                                    *)
(***************************************************************************)
\* documents in the database
MaxDocs == 2
\* days the clock can span
MaxDays == 2
\* clock readings distinguished within one day (0 is midnight)
TicksPerDay == 2
\* largest look-ahead window, in days, tried with expiring-soon
MaxWindow == 1
\* clients of the record store the process constructs at most
MaxClients == 2

(***************************************************************************)
(* Program constants.                                                      *)
(***************************************************************************)
\* datetime.MAXYEAR: a date past it raises OverflowError
MAXYEAR == 9999
\* default look-ahead of the expiring-soon query
DefaultDays == 30
\* top-k of the content lookup
TopK == 10

(***************************************************************************)
(* Strings                                                                 *)
(***************************************************************************)
Dash == 45
Zero == 48

RECURSIVE StrLess(_, _)
\* Python's (and the gateway's) ordering of two strings: a < b
StrLess(a, b) ==
    IF b = <<>> THEN FALSE
    ELSE IF a = <<>> THEN TRUE
    ELSE IF Head(a) # Head(b) THEN Head(a) < Head(b)
    ELSE StrLess(Tail(a), Tail(b))

StrLeq(a, b) == a = b \/ StrLess(a, b)

IsDigit(ch) == ch >= Zero /\ ch <= Zero + 9

\* zero-padded decimal rendering, as %Y / %m / %d produce it
Fmt2(n) == <<Zero + ((n \div 10) % 10), Zero + (n % 10)>>
Fmt4(n) == <<Zero + ((n \div 1000) % 10), Zero + ((n \div 100) % 10)>> \o Fmt2(n)

RECURSIVE DigitsValue(_)
DigitsValue(s) ==
    IF s = <<>> THEN 0
    ELSE (DigitsValue(SubSeq(s, 1, Len(s) - 1)) * 10) + (s[Len(s)] - Zero)

(***************************************************************************)
(* The proleptic Gregorian calendar of Python's datetime                   *)
(***************************************************************************)
IsLeap(y) == (y % 4 = 0) /\ ((y % 100 # 0) \/ (y % 400 = 0))

DaysInMonth(y, m) ==
    IF m = 2 THEN (IF IsLeap(y) THEN 29 ELSE 28)
    ELSE IF m \in {4, 6, 9, 11} THEN 30 ELSE 31

DaysBeforeYear(y) ==
    ((y - 1) * 365) + ((y - 1) \div 4) - ((y - 1) \div 100) + ((y - 1) \div 400)

RECURSIVE DaysBeforeMonth(_, _)
DaysBeforeMonth(y, m) ==
    IF m = 1 THEN 0 ELSE DaysBeforeMonth(y, m - 1) + DaysInMonth(y, m - 1)

\* date -> ordinal (day 1 is 0001-01-01)
Ymd2Ord(y, m, d) == DaysBeforeYear(y) + DaysBeforeMonth(y, m) + d

MaxOrdinal == Ymd2Ord(MAXYEAR, 12, 31)

\* ordinal -> date
Ord2Ymd(n) ==
    LET y == CHOOSE yy \in (n \div 366)..(n \div 365 + 1) :
                 DaysBeforeYear(yy) < n /\ n <= DaysBeforeYear(yy + 1)
        r == n - DaysBeforeYear(y)
        m == CHOOSE mm \in 1..12 :
                 DaysBeforeMonth(y, mm) < r
                 /\ r <= DaysBeforeMonth(y, mm) + DaysInMonth(y, mm)
    IN  <<y, m, r - DaysBeforeMonth(y, m)>>

\* strftime("%Y-%m-%d") of the date with ordinal n
Strftime(n) ==
    LET d == Ord2Ymd(n)
    IN  Fmt4(d[1]) \o <<Dash>> \o Fmt2(d[2]) \o <<Dash>> \o Fmt2(d[3])

\* positions of the dashes of s
DashPos(s) == {i \in 1..Len(s) : s[i] = Dash}

\* strptime(s, "%Y-%m-%d"): <<TRUE, ordinal>>, or <<FALSE, 0>> for ValueError.
\* %Y takes exactly four digits, %m and %d one or two; the date must exist.
Strptime(s) ==
    LET dp == DashPos(s)
        p1 == CHOOSE i \in dp : \A j \in dp : i <= j
        p2 == CHOOSE i \in dp : \A j \in dp : j <= i
        ys == SubSeq(s, 1, p1 - 1)
        ms == SubSeq(s, p1 + 1, p2 - 1)
        ds == SubSeq(s, p2 + 1, Len(s))
        shape == /\ Cardinality(dp) = 2
                 /\ Len(ys) = 4 /\ Len(ms) \in {1, 2} /\ Len(ds) \in {1, 2}
                 /\ \A i \in 1..Len(s) : i \in dp \/ IsDigit(s[i])
        y == DigitsValue(ys)
        m == DigitsValue(ms)
        d == DigitsValue(ds)
    IN  IF shape /\ y >= 1 /\ m \in 1..12 /\ d >= 1 /\ d <= DaysInMonth(y, m)
        THEN <<TRUE, Ymd2Ord(y, m, d)>>
        ELSE <<FALSE, 0>>

(***************************************************************************)
(* The clock: datetime.now() is a day and a time of day                    *)
(***************************************************************************)
FirstDay == Ymd2Ord(2024, 12, 31)

Instants == [ord : FirstDay..(FirstDay + MaxDays - 1), tod : 0..(TicksPerDay - 1)]

\* position of an instant on the time line, in ticks
Ticks(t) == (t.ord * TicksPerDay) + t.tod

\* the readings datetime.now() can give at or after instant t in a call that
\* began at instant t0: time may pass between two readings of one call, by at
\* most one tick over the whole call
Later(t0, t) ==
    {u \in Instants : Ticks(u) >= Ticks(t) /\ Ticks(u) <= Ticks(t0) + 1}

\* (target - now).days for a target at midnight of day ord: timedelta.days is
\* the floor of the difference, so any time of day past midnight costs a day
DeltaDays(ord, now) == IF now.tod = 0 THEN ord - now.ord ELSE ord - now.ord - 1

(***************************************************************************)
(* JSON values of the record store and Python values of the callers        *)
(***************************************************************************)
JStr(s) == [t |-> "str", s |-> s, n |-> 0]
JInt(n) == [t |-> "int", s |-> <<>>, n |-> n]
JNull == [t |-> "null", s |-> <<>>, n |-> 0]

\* Python truthiness of an optional str / int argument
Truthy(v) == (v.t = "str" /\ v.s # <<>>) \/ (v.t = "int" /\ v.n # 0)

PLO == <<80, 76, 79>>
KKPR == <<75, 75, 80, 82, 47, 75, 75, 80, 82, 76>>
PPN == <<80, 80, 78>>
PGN == <<80, 71, 78>>
NA == <<78, 47, 65>>

(***************************************************************************)
(* The record store.  It is filled by an ingestion pipeline outside this   *)
(* code, which only reads it: a document carries documentTitle,            *)
(* permitType, organization, filepath and its permit entries; a property   *)
(* may be absent (no such field) or null.                                  *)
(***************************************************************************)
\* the date k days after the first day of the clock
Day(k) == JStr(Strftime(FirstDay + k))

P1 == <<80, 49>>
P2 == <<80, 50>>
P3 == <<80, 51>>
P4 == <<80, 52>>
P5 == <<80, 53>>
P9 == <<80, 57>>

\* "IT Semarang Refinery" and "IT Jakarta"
Semarang == <<73, 84, 32, 83, 101, 109, 97, 114, 97, 110, 103, 32,
              82, 101, 102, 105, 110, 101, 114, 121>>
Jakarta == <<73, 84, 32, 74, 97, 107, 97, 114, 116, 97>>

Entry(number, issue, inst) ==
    [permitNumber |-> JStr(number), issueDate |-> issue,
     permitSummary |-> JStr(number), installation |-> JStr(inst)]

EntryExp(number, issue, exp, inst) ==
    [permitNumber |-> JStr(number), issueDate |-> issue, expirationDate |-> exp,
     permitSummary |-> JStr(number), installation |-> JStr(inst)]

\* a PLO document bundling two permit entries
DocA == [documentTitle |-> JStr(<<65>>), permitType |-> JStr(PLO),
         organization |-> JStr(PPN), filepath |-> JStr(<<65>>),
         permits |-> <<EntryExp(P1, Day(-1), Day(0), Semarang),
                       EntryExp(P2, Day(1), Day(1), Jakarta)>>]
\* a PLO document of another organization
DocB == [documentTitle |-> JStr(<<66>>), permitType |-> JStr(PLO),
         organization |-> JStr(PGN), filepath |-> JStr(<<66>>),
         permits |-> <<EntryExp(P3, Day(-1), Day(-1), Semarang)>>]
\* a document of a type without expiration date
DocC == [documentTitle |-> JStr(<<67>>), permitType |-> JStr(KKPR),
         organization |-> JStr(PPN), filepath |-> JStr(<<67>>),
         permits |-> <<Entry(P4, Day(1), Jakarta)>>]
\* a PLO document with null organization and null dates, whose permit number
\* repeats one of DocA
DocD == [documentTitle |-> JStr(<<68>>), permitType |-> JStr(PLO),
         organization |-> JNull, filepath |-> JStr(<<68>>),
         permits |-> <<EntryExp(P1, JNull, JNull, Jakarta)>>]
\* a non-PLO document without organization that carries an expiration date
DocE == [documentTitle |-> JStr(<<69>>), permitType |-> JStr(KKPR),
         filepath |-> JStr(<<69>>),
         permits |-> <<EntryExp(P5, Day(2), Day(-1), Semarang)>>]
\* a document without permitType
DocF == [documentTitle |-> JStr(<<70>>), organization |-> JStr(PGN),
         filepath |-> JStr(<<70>>),
         permits |-> <<Entry(P5, Day(1), Jakarta)>>]

Docs == <<DocA, DocB, DocC, DocD, DocE, DocF>>

RECURSIVE Chosen(_, _)
\* the documents of Docs whose index is in S, from index i on, in order
Chosen(S, i) ==
    IF i > Len(Docs) THEN <<>>
    ELSE (IF i \in S THEN <<Docs[i]>> ELSE <<>>) \o Chosen(S, i + 1)

\* the databases: up to MaxDocs of the documents, in the store's order
Databases ==
    {Chosen(S, 1) : S \in {T \in SUBSET (1..Len(Docs)) : Cardinality(T) <= MaxDocs}}

\* the permit entries of a database, as <<document, entry>>, in the order of
\* FROM c JOIN p IN c.permits
RECURSIVE Joined(_)
Joined(d) ==
    IF d = <<>> THEN <<>>
    ELSE [i \in 1..Len(Head(d).permits) |-> <<Head(d), Head(d).permits[i]>>]
         \o Joined(Tail(d))

(***************************************************************************)
(* The Record Store Gateway: container.query_items(query, parameters).     *)
(* A query text is the sequence of its pieces: the SELECT ... FROM head,   *)
(* then " WHERE " / " AND " and the conditions, as the code concatenates   *)
(* them.  A parameter is a name and a value.                               *)
(***************************************************************************)
SelIssue ==
    "SELECT c.documentTitle, c.permitType, c.organization, p.issueDate, p.permitSummary, p.permitNumber FROM c JOIN p IN c.permits"
SelExpiration ==
    "SELECT c.documentTitle, c.permitType, c.organization, p.expirationDate, p.permitSummary, p.permitNumber FROM c JOIN p IN c.permits"
SelExpiry ==
    "SELECT c.documentTitle, c.permitType, c.organization, c.filepath, p.expirationDate, p.permitSummary, p.permitNumber, p.installation FROM c JOIN p in c.permits"
SelFull ==
    "SELECT c.documentTitle, c.permitType, c.organization, c.filepath, p.issueDate, p.expirationDate, p.permitSummary, p.permitNumber, p.installation FROM c JOIN p in c.permits"
SelCount == "SELECT VALUE COUNT(1) FROM c JOIN p IN c.permits"
SelByType == "SELECT c.permitType, COUNT(1) as count FROM c GROUP BY c.permitType"
SelByOrg == "SELECT c.organization, COUNT(1) as count FROM c GROUP BY c.organization"
SelOrgs == "SELECT DISTINCT VALUE c.organization FROM c"

Where == " WHERE "
And == " AND "

Param(name, value) == [name |-> name, value |-> value]

\* the document properties and the entry properties a head selects
CFields(head) ==
    IF head \in {SelIssue, SelExpiration}
    THEN {"documentTitle", "permitType", "organization"}
    ELSE {"documentTitle", "permitType", "organization", "filepath"}

PFields(head) ==
    IF head = SelIssue THEN {"issueDate", "permitSummary", "permitNumber"}
    ELSE IF head = SelExpiration
    THEN {"expirationDate", "permitSummary", "permitNumber"}
    ELSE IF head = SelExpiry
    THEN {"expirationDate", "permitSummary", "permitNumber", "installation"}
    ELSE {"issueDate", "expirationDate", "permitSummary", "permitNumber",
          "installation"}

\* the row of one joined entry: an undefined property is left out of the row
Project(c, p, head) ==
    LET fs == {f \in CFields(head) : f \in DOMAIN c}
              \cup {f \in PFields(head) : f \in DOMAIN p}
    IN  [f \in fs |-> IF f \in DOMAIN c THEN c[f] ELSE p[f]]

\* the conditions of a query text
Conds(text) == SelectSeq(Tail(text), LAMBDA t : t \notin {Where, And})

\* the placeholders a condition names
Placeholders(cond) ==
    IF cond = "c.permitType = @permitType" THEN {"@permitType"}
    ELSE IF cond = "c.organization = @organization" THEN {"@organization"}
    ELSE IF cond \in {"YEAR(p.issueDate) = @year", "YEAR(p.issueDate) >= @year",
                      "YEAR(p.issueDate) <= @year",
                      "YEAR(p.expirationDate) = @year",
                      "YEAR(p.expirationDate) >= @year",
                      "YEAR(p.expirationDate) <= @year"} THEN {"@year"}
    ELSE IF cond \in {"p.expirationDate < @currentDate",
                      "p.expirationDate >= @currentDate"} THEN {"@currentDate"}
    ELSE IF cond = "p.expirationDate <= @futureDate" THEN {"@futureDate"}
    ELSE IF cond = "p.permitNumber = @permitNumber" THEN {"@permitNumber"}
    ELSE IF cond = "CONTAINS(LOWER(p.installation), LOWER(@installation))"
    THEN {"@installation"}
    ELSE {}

TextPlaceholders(text) ==
    UNION {Placeholders(Conds(text)[i]) : i \in 1..Len(Conds(text))}

ParamNames(params) == {params[i].name : i \in 1..Len(params)}

\* the value bound to a placeholder
ParamValue(params, name) ==
    params[CHOOSE i \in 1..Len(params) : params[i].name = name].value

\* a property that is a string
IsStr(r, f) == f \in DOMAIN r /\ r[f].t = "str"

\* YEAR(date): the year of a date string
Year(v) == DigitsValue(SubSeq(v.s, 1, 4))

HasYear(r, f) ==
    IsStr(r, f) /\ Len(r[f].s) >= 4 /\ \A i \in 1..4 : IsDigit(r[f].s[i])

\* a LOWER that leaves the case of letters as it is
LowerUnchanged(s) == s

\* LOWER(s)
Lower(s) == [i \in 1..Len(s) |-> IF s[i] >= 65 /\ s[i] <= 90 THEN s[i] + 32 ELSE s[i]]

\* CONTAINS(s, sub)
Contains(s, sub) ==
    \E i \in 0..(Len(s) - Len(sub)) : SubSeq(s, i + 1, i + Len(sub)) = sub

\* whether the joined entry (c, p) satisfies a condition; a comparison with an
\* undefined or differently typed operand is not satisfied
CondHolds(cond, c, p, params) ==
    LET v(name) == ParamValue(params, name)
    IN  IF cond = "c.permitType = @permitType"
        THEN "permitType" \in DOMAIN c /\ c.permitType = v("@permitType")
        ELSE IF cond = "c.permitType = 'PLO'"
        THEN "permitType" \in DOMAIN c /\ c.permitType = JStr(PLO)
        ELSE IF cond = "c.organization = @organization"
        THEN "organization" \in DOMAIN c /\ c.organization = v("@organization")
        ELSE IF cond = "YEAR(p.issueDate) = @year"
        THEN HasYear(p, "issueDate") /\ v("@year").t = "int"
             /\ Year(p.issueDate) = v("@year").n
        ELSE IF cond = "YEAR(p.issueDate) >= @year"
        THEN HasYear(p, "issueDate") /\ v("@year").t = "int"
             /\ Year(p.issueDate) >= v("@year").n
        ELSE IF cond = "YEAR(p.issueDate) <= @year"
        THEN HasYear(p, "issueDate") /\ v("@year").t = "int"
             /\ Year(p.issueDate) <= v("@year").n
        ELSE IF cond = "YEAR(p.expirationDate) = @year"
        THEN HasYear(p, "expirationDate") /\ v("@year").t = "int"
             /\ Year(p.expirationDate) = v("@year").n
        ELSE IF cond = "YEAR(p.expirationDate) >= @year"
        THEN HasYear(p, "expirationDate") /\ v("@year").t = "int"
             /\ Year(p.expirationDate) >= v("@year").n
        ELSE IF cond = "YEAR(p.expirationDate) <= @year"
        THEN HasYear(p, "expirationDate") /\ v("@year").t = "int"
             /\ Year(p.expirationDate) <= v("@year").n
        ELSE IF cond = "p.expirationDate < @currentDate"
        THEN IsStr(p, "expirationDate") /\ v("@currentDate").t = "str"
             /\ StrLess(p.expirationDate.s, v("@currentDate").s)
        ELSE IF cond = "p.expirationDate >= @currentDate"
        THEN IsStr(p, "expirationDate") /\ v("@currentDate").t = "str"
             /\ StrLeq(v("@currentDate").s, p.expirationDate.s)
        ELSE IF cond = "p.expirationDate <= @futureDate"
        THEN IsStr(p, "expirationDate") /\ v("@futureDate").t = "str"
             /\ StrLeq(p.expirationDate.s, v("@futureDate").s)
        ELSE IF cond = "p.permitNumber = @permitNumber"
        THEN "permitNumber" \in DOMAIN p /\ p.permitNumber = v("@permitNumber")
        ELSE IF cond = "CONTAINS(LOWER(p.installation), LOWER(@installation))"
        THEN IsStr(p, "installation") /\ v("@installation").t = "str"
             /\ Contains(Lower(p.installation.s), Lower(v("@installation").s))
        ELSE IF cond = "IS_DEFINED(c.organization)"
        THEN "organization" \in DOMAIN c
        ELSE FALSE

\* whether the joined entry satisfies every condition of the text
Matches(text, c, p, params) ==
    \A i \in 1..Len(Conds(text)) : CondHolds(Conds(text)[i], c, p, params)

RECURSIVE Dedup(_)
\* the distinct elements of a sequence, in the order of first appearance
Dedup(s) ==
    IF s = <<>> THEN <<>>
    ELSE LET r == Dedup(SubSeq(s, 1, Len(s) - 1))
             x == s[Len(s)]
         IN  IF \E i \in 1..Len(r) : r[i] = x THEN r ELSE Append(r, x)

\* a document's grouping key: <<value>>, or <<>> when the property is undefined
GroupKey(c, f) == IF f \in DOMAIN c THEN <<c[f]>> ELSE <<>>

\* SELECT c.f, COUNT(1) as count FROM c GROUP BY c.f: one row per distinct
\* value of the documents (not of their entries)
GroupBy(d, f) ==
    LET keys == Dedup([i \in 1..Len(d) |-> GroupKey(d[i], f)])
        count(k) == Cardinality({i \in 1..Len(d) : GroupKey(d[i], f) = k})
    IN  [j \in 1..Len(keys) |->
            IF keys[j] = <<>> THEN [count |-> JInt(count(keys[j]))]
            ELSE (f :> keys[j][1]) @@ [count |-> JInt(count(keys[j]))]]

\* the rows the store answers to a query
Rows(d, text, params) ==
    LET head == Head(text)
        j == Joined(d)
        hit == SelectSeq(j, LAMBDA cp : Matches(text, cp[1], cp[2], params))
    IN  IF head = SelCount THEN <<JInt(Len(hit))>>
        ELSE IF head = SelByType THEN GroupBy(d, "permitType")
        ELSE IF head = SelByOrg THEN GroupBy(d, "organization")
        ELSE IF head = SelOrgs
        THEN Dedup(LET ds == SelectSeq(d, LAMBDA c : Matches(text, c, c, params))
                   IN  [i \in 1..Len(ds) |-> ds[i].organization])
        ELSE [i \in 1..Len(hit) |-> Project(hit[i][1], hit[i][2], head)]

\* container.query_items: the rows, or a failure when the service fails (up =
\* FALSE) or the text names a placeholder that has no parameter
QueryItems(d, text, params, up) ==
    IF up /\ TextPlaceholders(text) \subseteq ParamNames(params)
    THEN [ok |-> TRUE, rows |-> Rows(d, text, params)]
    ELSE [ok |-> FALSE, rows |-> <<>>]

(***************************************************************************)
(* Values a call hands back to its caller                                  *)
(***************************************************************************)
Raise(e) == [kind |-> "raise", exc |-> e]
ListOf(rows) == [kind |-> "list", rows |-> rows]
NoneVal == [kind |-> "none"]
RowVal(r) == [kind |-> "row", row |-> r]
IntVal(n) == [kind |-> "int", n |-> n]
StrVal(form, parts) == [kind |-> "str", form |-> form, parts |-> parts]

\* the outcome of one Query Builder call: what it returned or raised, and the
\* queries it sent to the gateway, in order
Outcome(ret, queries) == [ret |-> ret, queries |-> queries]

Query(text, params) == [text |-> text, parameters |-> params]

\* the container argument: a handle, or None
Handle == "handle"
None == "None"

\* the operator argument: None, or one of the strings
Operators == {None, "equal", "greater", "less", "between"}
Orders == {"latest", "earliest"}

(***************************************************************************)
(* backend/client/cosmos_db.py                                             *)
(***************************************************************************)
\* get_permit_container(): raises ValueError unless COSMOS_DB_URI, _KEY,
\* _DATABASE and _CONTAINER are all set; otherwise the container of a client
\* it constructs
get_permit_container(configured) ==
    IF configured THEN [ok |-> TRUE, container |-> Handle]
    ELSE [ok |-> FALSE, container |-> None]

\* the clients constructed so far, n of them, after a call that was given this
\* container: get_permit_container() constructs a CosmosDBClient whenever it is
\* called in a configured environment, and keeps none
ClientsAfter(container, configured, n) ==
    IF container = None /\ configured THEN n + 1 ELSE n

\* "if container is None: container = get_permit_container()"
Container(container, configured) ==
    IF container = None THEN get_permit_container(configured)
    ELSE [ok |-> TRUE, container |-> container]

(***************************************************************************)
(* list.sort(key=lambda x: x.get(field, ''), reverse=...)                  *)
(***************************************************************************)
\* x.get(field, '')
SortKey(row, f) == IF f \in DOMAIN row THEN row[f] ELSE JStr(<<>>)

\* the sort compares the keys of two or more items, and a key that is None
\* cannot be compared: TypeError
SortRaises(items, f) ==
    Len(items) >= 2 /\ \E i \in 1..Len(items) : SortKey(items[i], f).t # "str"

\* the comparison of a sort that ignores reverse
GoesAfterAscending(x, e, f, reverse) ==
    ~StrLess(SortKey(x, f).s, SortKey(e, f).s)

\* whether x goes after e when x is inserted behind the items sorted so far
GoesAfter(x, e, f, reverse) ==
    IF reverse THEN ~StrLess(SortKey(e, f).s, SortKey(x, f).s)
    ELSE ~StrLess(SortKey(x, f).s, SortKey(e, f).s)

RECURSIVE Sort(_, _, _)
\* the stable sort: items with equal keys keep their order, also in reverse
Sort(items, f, reverse) ==
    IF items = <<>> THEN <<>>
    ELSE LET r == Sort(SubSeq(items, 1, Len(items) - 1), f, reverse)
             x == items[Len(items)]
             k == Cardinality({i \in 1..Len(r) : GoesAfter(x, r[i], f, reverse)})
         IN  SubSeq(r, 1, k) \o <<x>> \o SubSeq(r, k + 1, Len(r))

\* the try block without its except clause: a failed query raises
SortedItemsUncaught(res, f, order_by) ==
    IF ~res.ok THEN Raise("CosmosHttpResponseError")
    ELSE IF SortRaises(res.rows, f) THEN ListOf(<<>>)
    ELSE ListOf(Sort(res.rows, f, order_by = "latest"))

\* the try block of the four list queries: the rows sorted by the date field,
\* or [] when the query or the sort raises
SortedItems(res, f, order_by) ==
    IF ~res.ok \/ SortRaises(res.rows, f) THEN ListOf(<<>>)
    ELSE ListOf(Sort(res.rows, f, order_by = "latest"))

RECURSIVE JoinAnd(_)
\* " AND ".join(conditions)
JoinAnd(conds) ==
    IF Len(conds) <= 1 THEN conds
    ELSE <<Head(conds), And>> \o JoinAnd(Tail(conds))

\* query += " WHERE " + " AND ".join(conditions), if there are conditions
WithWhere(head, conds) ==
    IF conds = <<>> THEN <<head>> ELSE <<head, Where>> \o JoinAnd(conds)

(***************************************************************************)
(* backend/permit/queries.py                                               *)
(***************************************************************************)
\* the year condition with the comparisons of 'greater' and 'less' exchanged
YearConditionExchanged(field, operator) ==
    IF field = "issueDate"
    THEN (IF operator = "greater" THEN "YEAR(p.issueDate) <= @year"
          ELSE IF operator = "less" THEN "YEAR(p.issueDate) >= @year"
          ELSE "YEAR(p.issueDate) = @year")
    ELSE (IF operator = "greater" THEN "YEAR(p.expirationDate) <= @year"
          ELSE IF operator = "less" THEN "YEAR(p.expirationDate) >= @year"
          ELSE "YEAR(p.expirationDate) = @year")

\* the year condition on a date field for an operator
YearCondition(field, operator) ==
    IF field = "issueDate"
    THEN (IF operator = "greater" THEN "YEAR(p.issueDate) >= @year"
          ELSE IF operator = "less" THEN "YEAR(p.issueDate) <= @year"
          ELSE "YEAR(p.issueDate) = @year")
    ELSE (IF operator = "greater" THEN "YEAR(p.expirationDate) >= @year"
          ELSE IF operator = "less" THEN "YEAR(p.expirationDate) <= @year"
          ELSE "YEAR(p.expirationDate) = @year")

\* a test that looks at the year only
YearAppliesToYear(operator, year) == Truthy(year)

\* "if operator and year"
YearApplies(operator, year) == operator \notin {None, ""} /\ Truthy(year)

\* conditions whose organization is written into the text
YearConditionsInterpolated(field, permit_type, year, organization, operator) ==
    (IF Truthy(permit_type) THEN <<"c.permitType = @permitType">> ELSE <<>>)
    \o (IF YearApplies(operator, year) THEN <<YearCondition(field, operator)>>
        ELSE <<>>)
    \o (IF Truthy(organization)
        THEN <<IF organization = JStr(PPN) THEN "c.organization = 'PPN'"
               ELSE "c.organization = 'PGN'">>
        ELSE <<>>)

\* the conditions and parameters of the two by-year queries
YearConditions(field, permit_type, year, organization, operator) ==
    (IF Truthy(permit_type) THEN <<"c.permitType = @permitType">> ELSE <<>>)
    \o (IF YearApplies(operator, year) THEN <<YearCondition(field, operator)>>
        ELSE <<>>)
    \o (IF Truthy(organization) THEN <<"c.organization = @organization">>
        ELSE <<>>)

\* parameters that carry @year whenever a year is given
YearParametersOfYear(permit_type, year, organization, operator) ==
    (IF Truthy(permit_type) THEN <<Param("@permitType", permit_type)>> ELSE <<>>)
    \o (IF Truthy(year) THEN <<Param("@year", year)>> ELSE <<>>)
    \o (IF Truthy(organization) THEN <<Param("@organization", organization)>>
        ELSE <<>>)

YearParameters(permit_type, year, organization, operator) ==
    (IF Truthy(permit_type) THEN <<Param("@permitType", permit_type)>> ELSE <<>>)
    \o (IF YearApplies(operator, year) THEN <<Param("@year", year)>> ELSE <<>>)
    \o (IF Truthy(organization) THEN <<Param("@organization", organization)>>
        ELSE <<>>)

query_documents_by_issue_year(d, container, permit_type, year, organization, operator, order_by, configured, up) ==
    IF ~Container(container, configured).ok
    THEN Outcome(Raise("ValueError"), <<>>)
    ELSE LET text == WithWhere(SelIssue,
                         YearConditions("issueDate", permit_type, year,
                                        organization, operator))
             params == YearParameters(permit_type, year, organization, operator)
             res == QueryItems(d, text, params, up)
         IN  Outcome(SortedItems(res, "issueDate", order_by),
                     <<Query(text, params)>>)

query_documents_by_expiration_year(d, container, permit_type, year, organization, operator, order_by, configured, up) ==
    IF ~Container(container, configured).ok
    THEN Outcome(Raise("ValueError"), <<>>)
    ELSE LET text == WithWhere(SelExpiration,
                         YearConditions("expirationDate", permit_type, year,
                                        organization, operator))
             params == YearParameters(permit_type, year, organization, operator)
             res == QueryItems(d, text, params, up)
         IN  Outcome(SortedItems(res, "expirationDate", order_by),
                     <<Query(text, params)>>)

\* the expired query without its condition on the permit type
ExpiredTextAnyType(organization) ==
    <<SelExpiry, Where, "p.expirationDate < @currentDate">>
    \o (IF Truthy(organization) THEN <<And, "c.organization = @organization">>
        ELSE <<>>)

\* the text and parameters of the expired query; now is the one reading of
\* the clock
ExpiredText(organization) ==
    <<SelExpiry, Where, "p.expirationDate < @currentDate", And,
      "c.permitType = 'PLO'">>
    \o (IF Truthy(organization) THEN <<And, "c.organization = @organization">>
        ELSE <<>>)

ExpiredParameters(organization, now) ==
    <<Param("@currentDate", JStr(Strftime(now.ord)))>>
    \o (IF Truthy(organization) THEN <<Param("@organization", organization)>>
        ELSE <<>>)

query_expired_documents(d, container, organization, order_by, configured, up, now) ==
    IF ~Container(container, configured).ok
    THEN Outcome(Raise("ValueError"), <<>>)
    ELSE LET text == ExpiredText(organization)
             params == ExpiredParameters(organization, now)
             res == QueryItems(d, text, params, up)
         IN  Outcome(SortedItems(res, "expirationDate", order_by),
                     <<Query(text, params)>>)

\* current_date + timedelta(days=days) leaves the range of datetime
Overflows(ord, days) == ord + days > MaxOrdinal \/ ord + days < 1

ExpiringText(organization) ==
    <<SelExpiry, Where, "p.expirationDate >= @currentDate", And,
      "p.expirationDate <= @futureDate", And, "c.permitType = 'PLO'">>
    \o (IF Truthy(organization) THEN <<And, "c.organization = @organization">>
        ELSE <<>>)

\* the parameters with the upper bound taken from the second reading
ExpiringParametersTwoReadings(days, organization, now1, now2) ==
    <<Param("@currentDate", JStr(Strftime(now1.ord))),
      Param("@futureDate", JStr(Strftime(now2.ord + days)))>>
    \o (IF Truthy(organization) THEN <<Param("@organization", organization)>>
        ELSE <<>>)

\* now1 is the reading kept in current_date; now2 is the second reading, which
\* future_date holds only until it is overwritten
ExpiringParameters(days, organization, now1, now2) ==
    <<Param("@currentDate", JStr(Strftime(now1.ord))),
      Param("@futureDate", JStr(Strftime(now1.ord + days)))>>
    \o (IF Truthy(organization) THEN <<Param("@organization", organization)>>
        ELSE <<>>)

query_documents_expiring_soon(d, container, days, organization, order_by, configured, up, now1, now2) ==
    IF ~Container(container, configured).ok
    THEN Outcome(Raise("ValueError"), <<>>)
    ELSE IF Overflows(now1.ord, days)
    THEN Outcome(Raise("OverflowError"), <<>>)
    ELSE LET text == ExpiringText(organization)
             params == ExpiringParameters(days, organization, now1, now2)
             res == QueryItems(d, text, params, up)
         IN  Outcome(SortedItems(res, "expirationDate", order_by),
                     <<Query(text, params)>>)

query_permit_by_number(d, container, permit_number, configured, up) ==
    IF ~Container(container, configured).ok
    THEN Outcome(Raise("ValueError"), <<>>)
    ELSE IF ~Truthy(permit_number) THEN Outcome(NoneVal, <<>>)
    ELSE LET text == <<SelFull, Where, "p.permitNumber = @permitNumber">>
             params == <<Param("@permitNumber", permit_number)>>
             res == QueryItems(d, text, params, up)
         IN  Outcome(IF res.ok /\ res.rows # <<>> THEN RowVal(res.rows[1])
                     ELSE NoneVal,
                     <<Query(text, params)>>)

query_permits_by_installation(d, container, installation, permit_type, configured, up) ==
    IF ~Container(container, configured).ok
    THEN Outcome(Raise("ValueError"), <<>>)
    ELSE IF ~Truthy(installation) THEN Outcome(ListOf(<<>>), <<>>)
    ELSE LET text == <<SelFull, Where,
                       "CONTAINS(LOWER(p.installation), LOWER(@installation))">>
                     \o (IF Truthy(permit_type)
                         THEN <<And, "c.permitType = @permitType">> ELSE <<>>)
             params == <<Param("@installation", installation)>>
                       \o (IF Truthy(permit_type)
                           THEN <<Param("@permitType", permit_type)>> ELSE <<>>)
             res == QueryItems(d, text, params, up)
         IN  Outcome(ListOf(IF res.ok THEN res.rows ELSE <<>>),
                     <<Query(text, params)>>)

\* sorted(organizations): raises TypeError when a value is not a string and
\* there is something to compare it with
get_all_organizations(d, container, configured, up) ==
    IF ~Container(container, configured).ok
    THEN Outcome(Raise("ValueError"), <<>>)
    ELSE LET text == <<SelOrgs, Where, "IS_DEFINED(c.organization)">>
             res == QueryItems(d, text, <<>>, up)
             rows == [i \in 1..Len(res.rows) |-> [organization |-> res.rows[i]]]
         IN  Outcome(ListOf(IF ~res.ok \/ SortRaises(rows, "organization")
                            THEN <<>>
                            ELSE LET sorted == Sort(rows, "organization", FALSE)
                                 IN  [i \in 1..Len(sorted) |->
                                         sorted[i].organization]),
                     <<Query(text, <<>>)>>)

\* next(results, 0) of a VALUE COUNT query
FirstOrZero(rows) == IF rows = <<>> THEN 0 ELSE rows[1].n

\* {item[key]: item['count'] for item in rows}; item[key] raises KeyError
\* when the row has no such property
DictRaises(rows, key) == \E i \in 1..Len(rows) : key \notin DOMAIN rows[i]

DictOf(rows, key) ==
    [i \in 1..Len(rows) |-> [key |-> rows[i][key], count |-> rows[i]["count"].n]]

\* the sum of the values of such a dict
RECURSIVE SumCounts(_)
SumCounts(dict) ==
    IF dict = <<>> THEN 0 ELSE Head(dict).count + SumCounts(Tail(dict))

TotalText == <<SelCount>>
ExpiredCountText ==
    <<SelCount, Where, "p.expirationDate < @currentDate", And,
      "c.permitType = 'PLO'">>
\* a third query that groups by organization
TypeTextByOrganization == <<SelByOrg>>
TypeText == <<SelByType>>
OrgText == <<SelByOrg>>

\* a zeroed structure that does not say that it stands for a failure
ZeroStatisticsSilent(e) ==
    [kind |-> "stats", total_permits |-> 0, expired_count |-> 0,
     active_count |-> 0, by_type |-> <<>>, by_organization |-> <<>>]

\* the structure returned when anything in the try block raises
ZeroStatistics(e) ==
    [kind |-> "stats", total_permits |-> 0, expired_count |-> 0,
     active_count |-> 0, by_type |-> <<>>, by_organization |-> <<>>,
     error |-> e]

\* an active count that forgets the expired permits
ActiveCountAll(total_count, expired_count) == total_count

\* the active count the success path reports
ActiveCount(total_count, expired_count) == total_count - expired_count

\* failAt names the query at which the service fails (0: none does); a query
\* is sent when its result is consumed, so none is sent after a failure.
\* now1 is the reading of current_date, now2 the one of generated_at.
get_permit_statistics(d, container, configured, failAt, now1, now2) ==
    IF ~Container(container, configured).ok
    THEN Outcome(Raise("ValueError"), <<>>)
    ELSE LET current == <<Param("@currentDate", JStr(Strftime(now1.ord)))>>
             q1 == Query(TotalText, <<>>)
             q2 == Query(ExpiredCountText, current)
             q3 == Query(TypeText, <<>>)
             q4 == Query(OrgText, <<>>)
             r1 == QueryItems(d, TotalText, <<>>, failAt # 1)
             r2 == QueryItems(d, ExpiredCountText, current, failAt # 2)
             r3 == QueryItems(d, TypeText, <<>>, failAt # 3)
             r4 == QueryItems(d, OrgText, <<>>, failAt # 4)
             total_count == FirstOrZero(r1.rows)
             expired_count == FirstOrZero(r2.rows)
         IN  IF ~r1.ok
             THEN Outcome(ZeroStatistics("CosmosHttpResponseError"), <<q1>>)
             ELSE IF ~r2.ok
             THEN Outcome(ZeroStatistics("CosmosHttpResponseError"), <<q1, q2>>)
             ELSE IF ~r3.ok
             THEN Outcome(ZeroStatistics("CosmosHttpResponseError"),
                          <<q1, q2, q3>>)
             ELSE IF DictRaises(r3.rows, "permitType")
             THEN Outcome(ZeroStatistics("KeyError"), <<q1, q2, q3>>)
             ELSE IF ~r4.ok
             THEN Outcome(ZeroStatistics("CosmosHttpResponseError"),
                          <<q1, q2, q3, q4>>)
             ELSE IF DictRaises(r4.rows, "organization")
             THEN Outcome(ZeroStatistics("KeyError"), <<q1, q2, q3, q4>>)
             ELSE Outcome([kind |-> "stats",
                           total_permits |-> total_count,
                           expired_count |-> expired_count,
                           active_count |-> ActiveCount(total_count,
                                                        expired_count),
                           by_type |-> DictOf(r3.rows, "permitType"),
                           by_organization |-> DictOf(r4.rows, "organization"),
                           generated_at |-> now2],
                          <<q1, q2, q3, q4>>)

(***************************************************************************)
(* backend/client/azure_search.py: the Search Gateway                      *)
(***************************************************************************)
\* the request body of semantic_ranking_search (vector_fields and
\* filter_query are not passed by the content lookup)
SearchPayload(keyword, k, select_fields) ==
    [search |-> keyword, queryType |-> "semantic",
     semanticConfiguration |-> "default", top |-> k, select |-> select_fields]

\* documents of the search index: with and without a title
SearchDocT == [title |-> JStr(<<84>>), content |-> JStr(<<116>>)]
SearchDocU == [content |-> JStr(<<117>>)]

\* what the service may answer: an HTTP error, a body without 'value', or a
\* ranked list of documents
SearchResponses ==
    {[ok |-> FALSE, json |-> [status |-> JInt(503)]],
     [ok |-> TRUE, json |-> [count |-> JInt(0)]],
     [ok |-> TRUE, json |-> [value |-> <<>>]],
     [ok |-> TRUE, json |-> [value |-> <<SearchDocT>>]],
     [ok |-> TRUE, json |-> [value |-> <<SearchDocT, SearchDocU>>]],
     [ok |-> TRUE, json |-> [value |-> <<SearchDocU, SearchDocT>>]]}

(***************************************************************************)
(* backend/permit/tools.py                                                 *)
(***************************************************************************)
\* item.get(field, default)
Get(item, f, default) == IF f \in DOMAIN item THEN item[f] ELSE JStr(default)

\* the numbered entries of a list tool: the fields rendered for each item
Rendered(items, fields) ==
    [i \in 1..Len(items) |-> [f \in fields |-> Get(items[i], f, NA)]]

\* a body that renders an empty list as a list of no entries
ListToolEmptyList(out, none, header, fields, error) ==
    IF out.ret.kind = "raise" THEN StrVal(error, <<out.ret.exc>>)
    ELSE StrVal(header, <<Len(out.ret.rows)>> \o Rendered(out.ret.rows, fields))

\* the body of the list tools: the error string when the query raised, the
\* no-results sentence for an empty list, else the header and the entries
ListTool(out, none, header, fields, error) ==
    IF out.ret.kind = "raise" THEN StrVal(error, <<out.ret.exc>>)
    ELSE IF out.ret.rows = <<>> THEN none
    ELSE StrVal(header, <<Len(out.ret.rows)>> \o Rendered(out.ret.rows, fields))

\* the text with the blocks in the opposite order
ContentTextReversed(response) ==
    IF ~response.ok
    THEN StrVal("Error retrieving documents: ", <<"HTTPError">>)
    ELSE IF "value" \notin DOMAIN response.json \/ response.json.value = <<>>
    THEN StrVal("No relevant documents found for the query.", <<>>)
    ELSE StrVal("[title]:\ncontent",
                [i \in 1..Len(response.json.value) |->
                    [title |-> Get(response.json.value[Len(response.json.value) + 1 - i], "title", <<85, 110, 116, 105, 116, 108, 101, 100>>),
                     content |-> Get(response.json.value[Len(response.json.value) + 1 - i], "content", <<>>)]])

\* the second half of get_permit_document_content: the text for a response
ContentText(response) ==
    IF ~response.ok
    THEN StrVal("Error retrieving documents: ", <<"HTTPError">>)
    ELSE IF "value" \notin DOMAIN response.json \/ response.json.value = <<>>
    THEN StrVal("No relevant documents found for the query.", <<>>)
    ELSE StrVal("[title]:\ncontent",
                [i \in 1..Len(response.json.value) |->
                    [title |-> IF "title" \in DOMAIN response.json.value[i]
                               THEN response.json.value[i].title
                               ELSE JStr(<<85, 110, 116, 105, 116, 108, 101, 100>>),
                     content |-> Get(response.json.value[i], "content", <<>>)]])

get_current_date(now) == StrVal("%Y-%m-%d", <<Strftime(now.ord)>>)

\* a difference counted from target to now
DaysBetweenReversed(now, target) == now - target

\* delta = target - now; delta.days, for two dates at midnight
DaysBetween(now, target) == target - now

\* the difference in days without the except clause
get_time_difference_uncaught(now_datetime, target_datetime) ==
    LET now == Strptime(now_datetime)
        target == Strptime(target_datetime)
    IN  IF now[1] /\ target[1] THEN IntVal(DaysBetween(now[2], target[2]))
        ELSE Raise("ValueError")

\* the difference in days, or 0 when a string does not parse (ValueError)
get_time_difference(now_datetime, target_datetime) ==
    LET now == Strptime(now_datetime)
        target == Strptime(target_datetime)
    IN  IF now[1] /\ target[1] THEN IntVal(DaysBetween(now[2], target[2]))
        ELSE IntVal(0)

get_list_documents_by_issue_year(d, permit_type, year, organization, operator, order_by, up) ==
    LET out == query_documents_by_issue_year(d, Handle, permit_type, year,
                   organization, operator, order_by, TRUE, up)
    IN  Outcome(
          ListTool(out,
            StrVal("No documents found issued in year {year} with the specified filters.",
                   <<year>>),
            "List of documents issued: {len(items)} items found",
            {"documentTitle", "permitNumber", "organization", "issueDate",
             "permitSummary"},
            "Error retrieving documents: "),
          out.queries)

get_list_documents_by_expiration_year(d, permit_type, year, organization, operator, order_by, up) ==
    LET out == query_documents_by_expiration_year(d, Handle, permit_type, year,
                   organization, operator, order_by, TRUE, up)
    IN  Outcome(
          ListTool(out,
            StrVal("No documents found expiring in year {year} with the specified filters.",
                   <<year>>),
            "List of documents expiring: {len(items)} items found",
            {"documentTitle", "permitNumber", "organization", "expirationDate",
             "permitSummary"},
            "Error retrieving documents: "),
          out.queries)

\* now0 is the tool's own reading (current_date), now1 the query's
get_list_documents_already_expired(d, organization, order_by, up, now0, now1) ==
    LET out == query_expired_documents(d, Handle, organization, order_by, TRUE,
                                       up, now1)
    IN  Outcome(
          ListTool(out,
            StrVal("No expired documents found as of {current_date}.",
                   <<Strftime(now0.ord)>>),
            "Documents that have already expired as of {current_date}",
            {"documentTitle", "permitNumber", "organization", "installation",
             "expirationDate", "permitSummary"},
            "Error retrieving expired documents: "),
          out.queries)

\* item.get('expirationDate', 'N/A') of an entry of the expiring-soon list
Expiry(item) == Get(item, "expirationDate", NA)

\* strptime(expiry, "%Y-%m-%d") raises: TypeError for None, ValueError for a
\* string that is no date
ExpiryRaises(item) ==
    Expiry(item) # JStr(NA)
    /\ (Expiry(item).t # "str" \/ ~Strptime(Expiry(item).s)[1])

\* (datetime.strptime(expiry, "%Y-%m-%d") - datetime.now()).days
DaysRemaining(item, now) == DeltaDays(Strptime(Expiry(item).s)[2], now)

\* now0 is the tool's own reading, now1 and now2 the query's, now3 the one
\* the entries are rendered against
get_list_documents_expiring_soon(d, days, organization, order_by, up, now0, now1, now2, now3) ==
    LET out == query_documents_expiring_soon(d, Handle, days, organization,
                   order_by, TRUE, up, now1, now2)
        items == out.ret.rows
    IN  Outcome(
          IF out.ret.kind = "raise"
          THEN StrVal("Error retrieving documents expiring soon: ",
                      <<out.ret.exc>>)
          ELSE IF items = <<>>
          THEN StrVal("No documents expiring within the next {days} days.",
                      <<days>>)
          ELSE IF \E i \in 1..Len(items) : ExpiryRaises(items[i])
          THEN StrVal("Error retrieving documents expiring soon: ",
                      <<"ValueError">>)
          ELSE StrVal("Documents expiring within the next {days} days (as of {current_date})",
                 <<days, Strftime(now0.ord), Len(items)>>
                 \o [i \in 1..Len(items) |->
                       [item |-> Rendered(<<items[i]>>,
                                   {"documentTitle", "permitNumber",
                                    "organization", "installation",
                                    "expirationDate", "permitSummary"})[1],
                        days_remaining |->
                            IF Expiry(items[i]) # JStr(NA)
                            THEN <<DaysRemaining(items[i], now3)>> ELSE <<>>]]),
          out.queries)

\* the status of a permit whose expiration date is days_diff days away
Status(days_diff) ==
    IF days_diff < 0 THEN "Expired"
    ELSE IF days_diff <= 30 THEN "Expiring Soon"
    ELSE "Active"

\* permit.get('expirationDate'): None when the row has none
ExpiryOf(permit) == IF "expirationDate" \in DOMAIN permit
                    THEN permit.expirationDate ELSE JNull

get_permit_details(d, permit_number, up, now) ==
    LET out == query_permit_by_number(d, Handle, permit_number, TRUE, up)
        permit == out.ret.row
        expiry == ExpiryOf(permit)
        parsed == Strptime(expiry.s)
        days_diff == DeltaDays(parsed[2], now)
    IN  Outcome(
          IF out.ret.kind = "raise"
          THEN StrVal("Error retrieving permit details: ", <<out.ret.exc>>)
          ELSE IF out.ret.kind = "none"
          THEN StrVal("Permit '{permit_number}' not found in the database.",
                      <<permit_number>>)
          ELSE IF ~Truthy(expiry)
          THEN StrVal("Permit Details for {permit_number}:",
                      <<permit_number, permit, "Active", <<>>>>)
          ELSE IF ~parsed[1]
          THEN StrVal("Error retrieving permit details: ", <<"ValueError">>)
          ELSE StrVal("Permit Details for {permit_number}:",
                      <<permit_number, permit, Status(days_diff),
                        <<days_diff>>>>),
          out.queries)

get_permits_by_installation(d, installation, permit_type, up) ==
    LET out == query_permits_by_installation(d, Handle, installation,
                                             permit_type, TRUE, up)
    IN  Outcome(
          ListTool(out,
            StrVal("No permits found for installation '{installation}'.",
                   <<installation>>),
            "Permits for installation '{installation}':",
            {"permitNumber", "permitType", "documentTitle", "organization",
             "issueDate", "expirationDate", "permitSummary"},
            "Error retrieving permits for installation: "),
          out.queries)

(***************************************************************************)
(* The arguments the callers try                                           *)
(***************************************************************************)
ThisYear == Ord2Ymd(FirstDay)[1]

\* how a call finds the gateway: the container argument, whether the
\* environment the factory reads is configured (read only when the argument is
\* None), and whether the service answers (asked only when there is a handle)
Environments ==
    {[container |-> Handle, configured |-> TRUE, up |-> TRUE],
     [container |-> Handle, configured |-> TRUE, up |-> FALSE],
     [container |-> None, configured |-> TRUE, up |-> TRUE],
     [container |-> None, configured |-> TRUE, up |-> FALSE],
     [container |-> None, configured |-> FALSE, up |-> TRUE]}
PermitTypes == {JNull, JStr(PLO)}
Years == {JNull, JInt(0), JInt(ThisYear + 1)}
Organizations == {JNull, JStr(PPN)}
PermitNumbers == {JNull, JStr(<<>>), JStr(P1), JStr(P4), JStr(P9)}
\* "semarang", "IT Jakarta"
Installations ==
    {JNull, JStr(<<115, 101, 109, 97, 114, 97, 110, 103>>), JStr(Jakarta)}
\* a window that overflows the calendar whatever the date
HugeDays == MaxOrdinal
DaysArgs == (0..MaxWindow) \cup {HugeDays}
\* the days whose dates the callers write: the first days of the clock and
\* the two days of the documented example
DateDays ==
    {FirstDay, FirstDay + 1, Ymd2Ord(2025, 11, 20), Ymd2Ord(2026, 1, 5)}
\* strings that are no date: a thirteenth month, and the empty string
MalformedDates ==
    {Fmt4(ThisYear) \o <<Dash>> \o Fmt2(13) \o <<Dash>> \o Fmt2(1), <<>>}
\* well-formed, unpadded, impossible and empty date strings
DateStrings ==
    {Strftime(n) : n \in DateDays}
    \cup {Fmt4(ThisYear + 1) \o <<Dash, Zero + 1, Dash, Zero + 2>>}
    \cup MalformedDates
Keywords == {<<112, 105, 112, 101>>}

(***************************************************************************)
(* The state machine.  One caller invokes one operation at a time; every   *)
(* operation runs to completion, except the content lookup, which is       *)
(* suspended while the search is in flight.  last is the call on which the *)
(* caller is, with what it got back.                                       *)
(***************************************************************************)
NoCall == [op |-> "none"]

Call(op, args, out, now) ==
    [op |-> op, args |-> args, ret |-> out.ret, queries |-> out.queries,
     now |-> now]

\* The modules are loaded: tools.py has made cosmos_container, the handle its
\* tools pass to every query, from the one client constructed so far.
Init ==
    /\ db \in Databases
    /\ clock = [ord |-> FirstDay, tod |-> 0]
    /\ pc = "idle"
    /\ last = NoCall
    /\ clients = 1

\* time passes between two calls
Tick ==
    /\ pc \in {"idle", "awaiting"}
    /\ \E t \in Later(clock, clock) : t # clock /\ clock' = t
    /\ UNCHANGED <<db, pc, last, clients>>

\* the caller takes what the call returned; nothing of the call is kept
Resume ==
    /\ pc = "returned"
    /\ pc' = "idle"
    /\ last' = NoCall
    /\ UNCHANGED <<db, clock, clients>>

QueryByIssueYear ==
    /\ pc = "idle"
    /\ \E env \in Environments, permit_type \in PermitTypes, year \in Years, organization \in Organizations, operator \in Operators, order_by \in Orders :
         /\ last' = Call("query_documents_by_issue_year",
                     [env |-> env, permit_type |-> permit_type, year |-> year,
                     organization |-> organization, operator |-> operator,
                     order_by |-> order_by],
                     query_documents_by_issue_year(db, env.container,
                     permit_type, year, organization, operator, order_by,
                     env.configured, env.up),
                     <<>>)
         /\ clock' = clock
         /\ clients' = ClientsAfter(env.container, env.configured, clients)
         /\ clients' <= MaxClients
    /\ pc' = "returned"
    /\ UNCHANGED db

QueryByExpirationYear ==
    /\ pc = "idle"
    /\ \E env \in Environments, permit_type \in PermitTypes, year \in Years, organization \in Organizations, operator \in Operators, order_by \in Orders :
         /\ last' = Call("query_documents_by_expiration_year",
                     [env |-> env, permit_type |-> permit_type, year |-> year,
                     organization |-> organization, operator |-> operator,
                     order_by |-> order_by],
                     query_documents_by_expiration_year(db, env.container,
                     permit_type, year, organization, operator, order_by,
                     env.configured, env.up),
                     <<>>)
         /\ clock' = clock
         /\ clients' = ClientsAfter(env.container, env.configured, clients)
         /\ clients' <= MaxClients
    /\ pc' = "returned"
    /\ UNCHANGED db

QueryExpired ==
    /\ pc = "idle"
    /\ \E env \in Environments, organization \in Organizations, order_by \in Orders :
         /\ last' = Call("query_expired_documents",
                     [env |-> env, organization |-> organization,
                     order_by |-> order_by],
                     query_expired_documents(db, env.container, organization,
                     order_by, env.configured, env.up, clock),
                     <<clock>>)
         /\ clock' = clock
         /\ clients' = ClientsAfter(env.container, env.configured, clients)
         /\ clients' <= MaxClients
    /\ pc' = "returned"
    /\ UNCHANGED db

QueryExpiringSoon ==
    /\ pc = "idle"
    /\ \E env \in Environments, days \in DaysArgs, organization \in Organizations, order_by \in Orders, now2 \in Later(clock, clock) :
         /\ last' = Call("query_documents_expiring_soon",
                     [env |-> env, days |-> days, organization |-> organization,
                     order_by |-> order_by],
                     query_documents_expiring_soon(db, env.container, days,
                     organization, order_by, env.configured, env.up, clock,
                     now2),
                     <<clock, now2>>)
         /\ clock' = now2
         /\ clients' = ClientsAfter(env.container, env.configured, clients)
         /\ clients' <= MaxClients
    /\ pc' = "returned"
    /\ UNCHANGED db

QueryByNumber ==
    /\ pc = "idle"
    /\ \E env \in Environments, permit_number \in PermitNumbers :
         /\ last' = Call("query_permit_by_number",
                     [env |-> env, permit_number |-> permit_number],
                     query_permit_by_number(db, env.container, permit_number,
                     env.configured, env.up),
                     <<>>)
         /\ clock' = clock
         /\ clients' = ClientsAfter(env.container, env.configured, clients)
         /\ clients' <= MaxClients
    /\ pc' = "returned"
    /\ UNCHANGED db

QueryByInstallation ==
    /\ pc = "idle"
    /\ \E env \in Environments, installation \in Installations, permit_type \in PermitTypes :
         /\ last' = Call("query_permits_by_installation",
                     [env |-> env, installation |-> installation,
                     permit_type |-> permit_type],
                     query_permits_by_installation(db, env.container,
                     installation, permit_type, env.configured, env.up),
                     <<>>)
         /\ clock' = clock
         /\ clients' = ClientsAfter(env.container, env.configured, clients)
         /\ clients' <= MaxClients
    /\ pc' = "returned"
    /\ UNCHANGED db

GetAllOrganizations ==
    /\ pc = "idle"
    /\ \E env \in Environments :
         /\ last' = Call("get_all_organizations", [env |-> env],
                     get_all_organizations(db, env.container, env.configured,
                     env.up),
                     <<>>)
         /\ clock' = clock
         /\ clients' = ClientsAfter(env.container, env.configured, clients)
         /\ clients' <= MaxClients
    /\ pc' = "returned"
    /\ UNCHANGED db

\* the service fails at one of the four queries, or at none
GetPermitStatistics ==
    /\ pc = "idle"
    /\ \E env \in {e \in Environments : e.up}, failAt \in 0..4, now2 \in Later(clock, clock) :
         /\ last' = Call("get_permit_statistics", [env |-> env, failAt |-> failAt],
                     get_permit_statistics(db, env.container, env.configured,
                     failAt, clock, now2),
                     <<clock, now2>>)
         /\ clock' = now2
         /\ clients' = ClientsAfter(env.container, env.configured, clients)
         /\ clients' <= MaxClients
    /\ pc' = "returned"
    /\ UNCHANGED db

\* The tools pass cosmos_container, the handle made when the module is loaded.
\* A caller invokes a tool when it holds no result, or invokes once more, with
\* the same arguments, the tool whose result it holds.
Invocable(op, args) ==
    \/ pc = "idle"
    \/ pc = "returned" /\ last.op = op /\ last.args = args

ToolCurrentDate ==
    /\ Invocable("get_current_date",
           [none |-> TRUE])
    /\ last' = Call("get_current_date", [none |-> TRUE],
                Outcome(get_current_date(clock), <<>>), <<clock>>)
    /\ clock' = clock
    /\ pc' = "returned"
    /\ UNCHANGED <<db, clients>>

ToolTimeDifference ==
    /\ \E now_datetime \in DateStrings, target_datetime \in DateStrings :
         /\ Invocable("get_time_difference",
                [now_datetime |-> now_datetime, target_datetime |-> target_datetime])
         /\ last' = Call("get_time_difference",
                     [now_datetime |-> now_datetime,
                     target_datetime |-> target_datetime],
                     Outcome(get_time_difference(now_datetime, target_datetime),
                     <<>>),
                     <<>>)
         /\ clock' = clock
    /\ pc' = "returned"
    /\ UNCHANGED <<db, clients>>

ToolByIssueYear ==
    /\ \E permit_type \in PermitTypes, year \in Years, organization \in Organizations, operator \in Operators, order_by \in Orders, up \in BOOLEAN :
         /\ Invocable("get_list_documents_by_issue_year",
                [permit_type |-> permit_type, year |-> year, organization |-> organization, operator |-> operator, order_by |-> order_by, up |-> up])
         /\ last' = Call("get_list_documents_by_issue_year",
                     [permit_type |-> permit_type, year |-> year,
                     organization |-> organization, operator |-> operator,
                     order_by |-> order_by, up |-> up],
                     get_list_documents_by_issue_year(db, permit_type, year,
                     organization, operator, order_by, up),
                     <<>>)
         /\ clock' = clock
    /\ pc' = "returned"
    /\ UNCHANGED <<db, clients>>

ToolByExpirationYear ==
    /\ \E permit_type \in PermitTypes, year \in Years, organization \in Organizations, operator \in Operators, order_by \in Orders, up \in BOOLEAN :
         /\ Invocable("get_list_documents_by_expiration_year",
                [permit_type |-> permit_type, year |-> year, organization |-> organization, operator |-> operator, order_by |-> order_by, up |-> up])
         /\ last' = Call("get_list_documents_by_expiration_year",
                     [permit_type |-> permit_type, year |-> year,
                     organization |-> organization, operator |-> operator,
                     order_by |-> order_by, up |-> up],
                     get_list_documents_by_expiration_year(db, permit_type,
                     year, organization, operator, order_by, up),
                     <<>>)
         /\ clock' = clock
    /\ pc' = "returned"
    /\ UNCHANGED <<db, clients>>

ToolAlreadyExpired ==
    /\ \E organization \in Organizations, order_by \in Orders, up \in BOOLEAN, now1 \in Later(clock, clock) :
         /\ Invocable("get_list_documents_already_expired",
                [organization |-> organization, order_by |-> order_by, up |-> up])
         /\ last' = Call("get_list_documents_already_expired",
                     [organization |-> organization, order_by |-> order_by,
                     up |-> up],
                     get_list_documents_already_expired(db, organization,
                     order_by, up, clock, now1),
                     <<clock, now1>>)
         /\ clock' = now1
    /\ pc' = "returned"
    /\ UNCHANGED <<db, clients>>

ToolExpiringSoon ==
    /\ \E days \in DaysArgs, organization \in Organizations, order_by \in Orders, up \in BOOLEAN, now1 \in Later(clock, clock) :
         \E now2 \in Later(clock, now1) :
         \E now3 \in Later(clock, now2) :
         /\ Invocable("get_list_documents_expiring_soon",
                [days |-> days, organization |-> organization, order_by |-> order_by, up |-> up])
         /\ last' = Call("get_list_documents_expiring_soon",
                     [days |-> days, organization |-> organization,
                     order_by |-> order_by, up |-> up],
                     get_list_documents_expiring_soon(db, days, organization,
                     order_by, up, clock, now1, now2, now3),
                     <<clock, now1, now2, now3>>)
         /\ clock' = now3
    /\ pc' = "returned"
    /\ UNCHANGED <<db, clients>>

ToolPermitDetails ==
    /\ \E permit_number \in PermitNumbers \ {JNull}, up \in BOOLEAN, now1 \in Later(clock, clock) :
         /\ Invocable("get_permit_details",
                [permit_number |-> permit_number, up |-> up])
         /\ last' = Call("get_permit_details",
                     [permit_number |-> permit_number, up |-> up],
                     get_permit_details(db, permit_number, up, now1),
                     <<now1>>)
         /\ clock' = now1
    /\ pc' = "returned"
    /\ UNCHANGED <<db, clients>>

ToolByInstallation ==
    /\ \E installation \in Installations \ {JNull}, permit_type \in PermitTypes, up \in BOOLEAN :
         /\ Invocable("get_permits_by_installation",
                [installation |-> installation, permit_type |-> permit_type, up |-> up])
         /\ last' = Call("get_permits_by_installation",
                     [installation |-> installation,
                     permit_type |-> permit_type, up |-> up],
                     get_permits_by_installation(db, installation, permit_type,
                     up),
                     <<>>)
         /\ clock' = clock
    /\ pc' = "returned"
    /\ UNCHANGED <<db, clients>>

\* get_permit_document_content up to its await: the search is sent
ContentSearch ==
    /\ pc = "idle"
    /\ \E keyword \in Keywords :
         last' = [op |-> "get_permit_document_content",
                  args |-> [keyword |-> keyword],
                  searches |-> <<SearchPayload(keyword, TopK,
                                               <<"title", "content">>)>>]
    /\ pc' = "awaiting"
    /\ UNCHANGED <<db, clock, clients>>

\* the search answers and get_permit_document_content returns its text
ContentResponse ==
    /\ pc = "awaiting"
    /\ \E response \in SearchResponses :
         last' = [op |-> last.op, args |-> last.args,
                  searches |-> last.searches, response |-> response,
                  ret |-> ContentText(response), queries |-> <<>>,
                  now |-> <<>>]
    /\ pc' = "returned"
    /\ UNCHANGED <<db, clock, clients>>

Next ==
    \/ Tick
    \/ Resume
    \/ QueryByIssueYear
    \/ QueryByExpirationYear
    \/ QueryExpired
    \/ QueryExpiringSoon
    \/ QueryByNumber
    \/ QueryByInstallation
    \/ GetAllOrganizations
    \/ GetPermitStatistics
    \/ ToolCurrentDate
    \/ ToolTimeDifference
    \/ ToolByIssueYear
    \/ ToolByExpirationYear
    \/ ToolAlreadyExpired
    \/ ToolExpiringSoon
    \/ ToolPermitDetails
    \/ ToolByInstallation
    \/ ContentSearch
    \/ ContentResponse

Spec == Init /\ [][Next]_vars

\* the shape of the state
TypeOK ==
    /\ db \in Databases
    /\ clock \in Instants
    /\ clients \in 1..MaxClients
    /\ pc \in {"idle", "awaiting", "returned"}
    /\ (pc = "idle") = (last = NoCall)
    /\ pc = "returned" => last.ret.kind \in {"raise", "list", "none", "row",
                                             "stats", "str", "int"}

(***************************************************************************)
(* Properties                                                              *)
(***************************************************************************)
QueryBuilderOps ==
    {"query_documents_by_issue_year", "query_documents_by_expiration_year",
     "query_expired_documents", "query_documents_expiring_soon",
     "query_permit_by_number", "query_permits_by_installation",
     "get_all_organizations", "get_permit_statistics"}

ToolOps ==
    {"get_permit_document_content", "get_current_date", "get_time_difference",
     "get_list_documents_by_issue_year", "get_list_documents_by_expiration_year",
     "get_list_documents_already_expired", "get_list_documents_expiring_soon",
     "get_permit_details", "get_permits_by_installation"}

\* a Query Builder call has returned to its caller
QueryReturned == pc = "returned" /\ last.op \in QueryBuilderOps

\* a tool call has returned to its caller
ToolReturned == pc = "returned" /\ last.op \in ToolOps

\* the call returned the empty value of its operation
ReturnedEmpty ==
    IF last.op = "query_permit_by_number" THEN last.ret = NoneVal
    ELSE IF last.op = "get_permit_statistics"
    THEN /\ last.ret.kind = "stats"
         /\ last.ret.total_permits = 0 /\ last.ret.expired_count = 0
         /\ last.ret.active_count = 0
         /\ last.ret.by_type = <<>> /\ last.ret.by_organization = <<>>
    ELSE last.ret = ListOf(<<>>)

\* a query of the call was sent to the gateway and the gateway raised
GatewayRaised ==
    IF last.op = "get_permit_statistics"
    THEN last.args.failAt \in 1..Len(last.queries)
    ELSE last.queries # <<>> /\ ~last.args.env.up

\* C1: a Query Builder operation called with a gateway handle whose query
\* raises returns its empty value (empty list, None for by-permit-number,
\* zero-valued statistics) and raises nothing to its caller.
C1_GatewayFailureIsEmpty ==
    (QueryReturned /\ last.args.env.container = Handle /\ GatewayRaised)
        => (last.ret.kind # "raise" /\ ReturnedEmpty)

\* the statistics are asked of a handle and the third query fails, after two
\* counts were obtained
C1_Witness ==
    /\ QueryReturned /\ last.op = "get_permit_statistics"
    /\ last.args.env.container = Handle /\ last.args.failAt = 3
    /\ Len(last.queries) = 3 /\ db # <<>>
    /\ ReturnedEmpty

\* C2: no Query Builder operation raises to its caller, and when the handle is
\* absent and the factory fails the operation returns its empty value.
C2_NeverRaises ==
    QueryReturned =>
        /\ last.ret.kind # "raise"
        /\ (last.args.env.container = None /\ ~last.args.env.configured)
               => ReturnedEmpty

\* C3 as stated: every tool returns a text string, whatever the input and the
\* gateway outcome, and never raises.
C3_ToolsReturnText == ToolReturned => last.ret.kind = "str"

\* the sentences a tool answers when it has nothing to list: the error
\* strings of the except clauses and the no-results sentences
FailureSentences ==
    {"Error retrieving documents: ", "Error retrieving expired documents: ",
     "Error retrieving documents expiring soon: ",
     "Error retrieving permit details: ",
     "Error retrieving permits for installation: ",
     "No relevant documents found for the query.",
     "No documents found issued in year {year} with the specified filters.",
     "No documents found expiring in year {year} with the specified filters.",
     "No expired documents found as of {current_date}.",
     "No documents expiring within the next {days} days.",
     "Permit '{permit_number}' not found in the database.",
     "No permits found for installation '{installation}'."}

\* the gateway of a tool call failed, or its input could not be served
ToolFailed ==
    \/ last.op = "get_permit_document_content" /\ ~last.response.ok
    \/ "up" \in DOMAIN last.args /\ last.queries # <<>> /\ ~last.args.up
    \/ last.op = "get_list_documents_expiring_soon" /\ last.queries = <<>>

\* C3 amended: no tool raises; get_time_difference returns an integer, 0 when
\* a date string does not parse; every other tool returns a text string, and
\* on a failure of the gateway or of the date arithmetic that string is the
\* tool's error or no-results sentence.
C3_ToolsNeverRaise ==
    ToolReturned =>
        /\ last.ret.kind # "raise"
        /\ IF last.op = "get_time_difference"
           THEN /\ last.ret.kind = "int"
                /\ (~Strptime(last.args.now_datetime)[1]
                    \/ ~Strptime(last.args.target_datetime)[1])
                       => last.ret.n = 0
           ELSE /\ last.ret.kind = "str"
                /\ ToolFailed => last.ret.form \in FailureSentences

\* the expiring-soon tool is asked for a window that overflows the calendar:
\* the OverflowError of the query ends in the tool's error string
C3_Witness ==
    /\ ToolReturned /\ last.op = "get_list_documents_expiring_soon"
    /\ last.args.days = HugeDays
    /\ last.ret = StrVal("Error retrieving documents expiring soon: ",
                         <<"OverflowError">>)

\* a row property that is a well-formed date
IsDate(r, f) == IsStr(r, f) /\ Strptime(r[f].s)[1]

\* the day and the year of a well-formed date
DateOrd(v) == Strptime(v.s)[2]
DateYear(v) == Ord2Ymd(DateOrd(v))[1]

\* the comparison an operator stands for
Satisfies(operator, y, year) ==
    IF operator = "greater" THEN y >= year
    ELSE IF operator = "less" THEN y <= year
    ELSE y = year

\* the date field of the four list queries
DateField ==
    IF last.op = "query_documents_by_issue_year" THEN "issueDate"
    ELSE "expirationDate"

\* a list query has returned a list
ListReturned(ops) == QueryReturned /\ last.op \in ops /\ last.ret.kind = "list"

DatedEntries(f) ==
    {i \in 1..Len(Joined(db)) : IsDate(Joined(db)[i][2], f)}

Count(s, x) == Cardinality({i \in 1..Len(s) : s[i] = x})

\* two sequences hold the same rows, each as often
SameRows(a, b) ==
    Len(a) = Len(b) /\ \A i \in 1..Len(a) : Count(a, a[i]) = Count(b, a[i])

\* the entry is a PLO entry of the organization (if one is asked for) whose
\* expiration date is a day from lo to hi
ExpiresWithin(c, p, organization, lo, hi) ==
    /\ "permitType" \in DOMAIN c /\ c.permitType = JStr(PLO)
    /\ Truthy(organization)
           => "organization" \in DOMAIN c /\ c.organization = organization
    /\ IsDate(p, "expirationDate")
    /\ lo <= DateOrd(p.expirationDate) /\ DateOrd(p.expirationDate) <= hi

\* the rows of the entries that expire within the window
WindowRows(organization, lo, hi) ==
    LET hit == SelectSeq(Joined(db),
                   LAMBDA cp : ExpiresWithin(cp[1], cp[2], organization, lo, hi))
    IN  [i \in 1..Len(hit) |-> Project(hit[i][1], hit[i][2], SelExpiry)]

\* C5: when the gateway answers, expiring-soon with days = D returns exactly
\* the PLO entries (of the organization, if given) with currentDate <=
\* expirationDate <= currentDate + D days, both ends included; both bounds
\* come from the first reading of the clock.
C5_ExpiringSoonExact ==
    (ListReturned({"query_documents_expiring_soon"}) /\ last.args.env.up) =>
        /\ SameRows(last.ret.rows,
                    WindowRows(last.args.organization, last.now[1].ord,
                               last.now[1].ord + last.args.days))
        /\ last.queries[1].parameters[1]
               = Param("@currentDate", JStr(Strftime(last.now[1].ord)))
        /\ last.queries[1].parameters[2]
               = Param("@futureDate",
                       JStr(Strftime(last.now[1].ord + last.args.days)))

\* midnight passes between the two readings of the clock, and the answer holds
\* an entry expiring on the current date and one expiring D >= 1 days later,
\* while an entry of the database expired the day before
C5_Witness ==
    /\ ListReturned({"query_documents_expiring_soon"})
    /\ last.now[2].ord # last.now[1].ord /\ last.args.days >= 1
    /\ \E i, j \in 1..Len(last.ret.rows) :
           /\ DateOrd(last.ret.rows[i].expirationDate) = last.now[1].ord
           /\ DateOrd(last.ret.rows[j].expirationDate)
                  = last.now[1].ord + last.args.days
    /\ \E i \in DatedEntries("expirationDate") :
           DateOrd(Joined(db)[i][2].expirationDate) = last.now[1].ord - 1

\* C6: the expired query returns no entry whose expirationDate is the current
\* date or later, no entry of a type other than PLO and, when an organization
\* is given, no entry of another organization; the current date is the one
\* reading of the clock the call makes.
C6_ExpiredSound ==
    ListReturned({"query_expired_documents"}) =>
        /\ Len(last.now) = 1
        /\ \A q \in 1..Len(last.queries) :
               last.queries[q].parameters[1]
                   = Param("@currentDate", JStr(Strftime(last.now[1].ord)))
        /\ \A i \in 1..Len(last.ret.rows) :
               LET r == last.ret.rows[i]
               IN  /\ IsDate(r, "expirationDate")
                   /\ DateOrd(r.expirationDate) < last.now[1].ord
                   /\ "permitType" \in DOMAIN r /\ r.permitType = JStr(PLO)
                   /\ Truthy(last.args.organization)
                          => /\ "organization" \in DOMAIN r
                             /\ r.organization = last.args.organization

\* expired entries are returned while the database also holds a PLO entry
\* that expires on the current date and an expired entry of another type
C6_Witness ==
    /\ ListReturned({"query_expired_documents"})
    /\ last.ret.rows # <<>>
    /\ \E i \in DatedEntries("expirationDate") :
           /\ Joined(db)[i][1].permitType = JStr(PLO)
           /\ DateOrd(Joined(db)[i][2].expirationDate) = last.now[1].ord
    /\ \E i \in DatedEntries("expirationDate") :
           /\ Joined(db)[i][1].permitType # JStr(PLO)
           /\ DateOrd(Joined(db)[i][2].expirationDate) < last.now[1].ord

\* the four list queries that sort by a date
SortingOps ==
    {"query_documents_by_issue_year", "query_documents_by_expiration_year",
     "query_expired_documents", "query_documents_expiring_soon"}

\* C7: the list the issue-year, expiration-year, expired and expiring-soon
\* queries return is non-increasing in the date field for order_by = 'latest'
\* and non-decreasing otherwise, a missing date counting as the empty string.
C7_Sorted ==
    ListReturned(SortingOps) =>
        \A i, j \in 1..Len(last.ret.rows) :
            i < j =>
                LET ki == SortKey(last.ret.rows[i], DateField)
                    kj == SortKey(last.ret.rows[j], DateField)
                IN  /\ ki.t = "str" /\ kj.t = "str"
                    /\ IF last.args.order_by = "latest" THEN StrLeq(kj.s, ki.s)
                       ELSE StrLeq(ki.s, kj.s)

\* newest first: the dated entries in falling order and the entry without
\* expiration date last
C7_Witness ==
    /\ ListReturned({"query_documents_by_expiration_year"})
    /\ last.args.order_by = "latest" /\ Len(last.ret.rows) >= 3
    /\ "expirationDate" \notin DOMAIN last.ret.rows[Len(last.ret.rows)]
    /\ StrLess(last.ret.rows[2].expirationDate.s,
               last.ret.rows[1].expirationDate.s)

\* the statistics operation has returned its structure
StatisticsReturned ==
    QueryReturned /\ last.op = "get_permit_statistics" /\ last.ret.kind = "stats"

\* C8: the structure get_permit_statistics returns satisfies active_count =
\* total_permits - expired_count, on the success and on the failure path.
C8_ActiveIsTotalMinusExpired ==
    StatisticsReturned =>
        last.ret.active_count = last.ret.total_permits - last.ret.expired_count

\* the success path with expired and unexpired permits
C8_Witness ==
    /\ StatisticsReturned /\ "error" \notin DOMAIN last.ret
    /\ last.ret.expired_count >= 1
    /\ last.ret.total_permits > last.ret.expired_count

\* C9: in the structure get_permit_statistics returns, the values of by_type
\* sum to total_permits.
C9_ByTypeSumsToTotal ==
    StatisticsReturned => SumCounts(last.ret.by_type) = last.ret.total_permits

\* the rows of the entries with a permit number, in the store's order
NumberRows(number) ==
    LET hit == SelectSeq(Joined(db),
                   LAMBDA cp : "permitNumber" \in DOMAIN cp[2]
                               /\ cp[2].permitNumber = number)
    IN  [i \in 1..Len(hit) |-> Project(hit[i][1], hit[i][2], SelFull)]

\* C10: query_permit_by_number never raises and never returns a list; for a
\* number no entry has it returns None, and when the gateway answers for a
\* number some entries have it returns the first of their rows.
C10_ByNumber ==
    (QueryReturned /\ last.op = "query_permit_by_number") =>
        /\ last.ret.kind \notin {"raise", "list"}
        /\ NumberRows(last.args.permit_number) = <<>> => last.ret = NoneVal
        /\ (NumberRows(last.args.permit_number) # <<>> /\ last.queries # <<>>
            /\ last.args.env.up)
               => last.ret = RowVal(NumberRows(last.args.permit_number)[1])

\* the identifier a lookup requires
Identifier ==
    IF last.op = "query_permit_by_number" THEN last.args.permit_number
    ELSE last.args.installation

\* C11: a lookup by permit number or by installation whose identifier is
\* missing or empty sends no query to the gateway and returns None,
\* respectively the empty list.
C11_ShortCircuit ==
    (QueryReturned
     /\ last.op \in {"query_permit_by_number", "query_permits_by_installation"}
     /\ ~Truthy(Identifier))
        => (last.queries = <<>> /\ ReturnedEmpty)

\* two characters that are equal when the case of letters is ignored
SameLetter(a, b) ==
    \/ a = b
    \/ a \in 65..90 /\ b = a + 32
    \/ b \in 65..90 /\ a = b + 32

\* sub occurs in s, the case of letters ignored
Occurs(sub, s) ==
    \E i \in 0..(Len(s) - Len(sub)) :
        \A k \in 1..Len(sub) : SameLetter(s[i + k], sub[k])

\* the rows of the entries of the database whose installation holds the search
\* string, of the permit type when one is given, in the store's order
InstallationRows(installation, permit_type) ==
    LET hit == SelectSeq(Joined(db),
                   LAMBDA cp : /\ IsStr(cp[2], "installation")
                               /\ Occurs(installation.s, cp[2].installation.s)
                               /\ Truthy(permit_type) =>
                                      ("permitType" \in DOMAIN cp[1]
                                       /\ cp[1].permitType = permit_type))
    IN  [i \in 1..Len(hit) |-> Project(hit[i][1], hit[i][2], SelFull)]

\* an installation lookup was answered by the gateway
InstallationAnswered ==
    /\ QueryReturned /\ last.op = "query_permits_by_installation"
    /\ last.queries # <<>> /\ last.args.env.up

\* C12: an installation lookup the gateway answers returns exactly the entries
\* whose installation contains the search string, both compared without
\* regard to case, restricted to the permit type when one is given.
C12_InstallationMatch ==
    InstallationAnswered =>
        last.ret = ListOf(InstallationRows(last.args.installation,
                                           last.args.permit_type))

\* "semarang" finds an entry of "IT Semarang Refinery"
C12_Witness ==
    /\ InstallationAnswered
    /\ last.args.installation = JStr(<<115, 101, 109, 97, 114, 97, 110, 103>>)
    /\ last.ret.kind = "list" /\ last.ret.rows # <<>>
    /\ \A i \in 1..Len(last.ret.rows) :
           last.ret.rows[i].installation = JStr(Semarang)

\* get_time_difference has returned
DifferenceReturned == ToolReturned /\ last.op = "get_time_difference"

\* C13: for two dates written as YYYY-MM-DD, get_time_difference returns the
\* number of days from the first to the second, negative when the second is
\* the earlier; when either string is no date it returns 0; it never raises.
C13_TimeDifference ==
    DifferenceReturned =>
        /\ last.ret.kind = "int"
        /\ \A a \in DateDays, b \in DateDays :
               (last.args.now_datetime = Strftime(a)
                /\ last.args.target_datetime = Strftime(b))
                   => last.ret.n = b - a
        /\ (last.args.now_datetime \in MalformedDates
            \/ last.args.target_datetime \in MalformedDates)
               => last.ret.n = 0

\* the documented example: 46 days from 2025-11-20 to 2026-01-05
C13_Witness ==
    /\ DifferenceReturned
    /\ last.args.now_datetime = Strftime(Ymd2Ord(2025, 11, 20))
    /\ last.args.target_datetime = Strftime(Ymd2Ord(2026, 1, 5))
    /\ last.ret = IntVal(46)

\* get_permit_details has found the permit and rendered its details
DetailsRendered ==
    /\ ToolReturned /\ last.op = "get_permit_details"
    /\ last.ret.form = "Permit Details for {permit_number}:"

\* the status the specification gives a permit with that many days remaining
StatusOf(remaining) ==
    IF remaining < 0 THEN "Expired"
    ELSE IF remaining <= 30 THEN "Expiring Soon"
    ELSE "Active"

\* C14: the status get_permit_details reports is Expired when the days
\* remaining until the expiration date are < 0, Expiring Soon when they are
\* in 0..30, Active when they are > 30, and Active for a permit without
\* expiration date; the days remaining are those from the date of the call.
C14_StatusByDaysRemaining ==
    DetailsRendered =>
        LET permit == last.ret.parts[2]
            status == last.ret.parts[3]
            today == last.now[1].ord
        IN  IF ~IsDate(permit, "expirationDate") THEN status = "Active"
            ELSE status = StatusOf(DateOrd(permit.expirationDate) - today)

\* the expiring-soon tool has rendered a list of entries
ExpiringRendered ==
    /\ ToolReturned /\ last.op = "get_list_documents_expiring_soon"
    /\ last.ret.form = "Documents expiring within the next {days} days (as of {current_date})"

\* the entries of that list
ExpiringEntries == SubSeq(last.ret.parts, 4, Len(last.ret.parts))

\* C15: for every entry the expiring-soon tool renders for days = D, the
\* days remaining d are the expiration date minus the current date of the
\* query in whole days, and 0 <= d <= D.
C15_DaysRemainingInWindow ==
    ExpiringRendered =>
        \A i \in 1..Len(ExpiringEntries) :
            LET e == ExpiringEntries[i]
                d == e.days_remaining[1]
                today == last.now[2].ord
            IN  e.days_remaining # <<>> =>
                    /\ d = DateOrd(e.item.expirationDate) - today
                    /\ 0 <= d /\ d <= last.args.days

\* the texts of the queries of a call
Texts(queries) == [i \in 1..Len(queries) |-> queries[i].text]

\* the values of the parameters of a query
ParamValues(query) ==
    {query.parameters[i].value : i \in 1..Len(query.parameters)}

\* two values of an optional filter that are both supplied or both left out
SameSupplied(a, b) == Truthy(a) = Truthy(b)

\* other values a caller may give the filters
OtherTypes == {JNull, JStr(PLO), JStr(KKPR)}
OtherYears == {JNull, JInt(ThisYear), JInt(ThisYear + 1)}
OtherOrganizations == {JNull, JStr(PPN), JStr(PGN)}
OtherNumbers == {JNull, JStr(P1), JStr(P9)}
OtherInstallations == {JNull, JStr(Jakarta), JStr(Semarang)}

\* a Query Builder operation that takes filters has sent its query
FilteredQuerySent ==
    /\ QueryReturned /\ last.queries # <<>>
    /\ last.op \notin {"get_all_organizations", "get_permit_statistics"}

\* the texts the operation of the last call sends when it is called on a
\* handle with other values for the filters that call supplied
TextsWithOtherValues ==
    LET a == last.args
    IN  IF last.op = "query_documents_by_issue_year"
        THEN {Texts(query_documents_by_issue_year(db, Handle, t, y, o,
                        a.operator, a.order_by, TRUE, TRUE).queries) :
                  t \in {x \in OtherTypes : SameSupplied(x, a.permit_type)},
                  y \in {x \in OtherYears : SameSupplied(x, a.year)},
                  o \in {x \in OtherOrganizations : SameSupplied(x, a.organization)}}
        ELSE IF last.op = "query_documents_by_expiration_year"
        THEN {Texts(query_documents_by_expiration_year(db, Handle, t, y, o,
                        a.operator, a.order_by, TRUE, TRUE).queries) :
                  t \in {x \in OtherTypes : SameSupplied(x, a.permit_type)},
                  y \in {x \in OtherYears : SameSupplied(x, a.year)},
                  o \in {x \in OtherOrganizations : SameSupplied(x, a.organization)}}
        ELSE IF last.op = "query_expired_documents"
        THEN {Texts(query_expired_documents(db, Handle, o, a.order_by, TRUE,
                        TRUE, last.now[1]).queries) :
                  o \in {x \in OtherOrganizations : SameSupplied(x, a.organization)}}
        ELSE IF last.op = "query_documents_expiring_soon"
        THEN {Texts(query_documents_expiring_soon(db, Handle, n, o, a.order_by,
                        TRUE, TRUE, last.now[1], last.now[2]).queries) :
                  n \in 0..MaxWindow,
                  o \in {x \in OtherOrganizations : SameSupplied(x, a.organization)}}
        ELSE IF last.op = "query_permit_by_number"
        THEN {Texts(query_permit_by_number(db, Handle, n, TRUE, TRUE).queries) :
                  n \in {x \in OtherNumbers : SameSupplied(x, a.permit_number)}}
        ELSE {Texts(query_permits_by_installation(db, Handle, i, t, TRUE,
                        TRUE).queries) :
                  i \in {x \in OtherInstallations : SameSupplied(x, a.installation)},
                  t \in {x \in OtherTypes : SameSupplied(x, a.permit_type)}}

\* the filter values the last call supplied
SuppliedValues ==
    {last.args[f] : f \in {g \in DOMAIN last.args :
                              /\ g \in {"permit_type", "organization",
                                        "permit_number", "installation"}
                              /\ Truthy(last.args[g])}}
    \cup (IF "year" \in DOMAIN last.args
             /\ YearApplies(last.args.operator, last.args.year)
          THEN {last.args.year} ELSE {})

\* C16: the text a Query Builder operation sends is the same for whatever
\* values the caller gives the filters it supplies (same operation, same
\* operator, same filters supplied), and every supplied value travels as the
\* value of a named parameter.
C16_ValuesOnlyInParameters ==
    FilteredQuerySent =>
        /\ TextsWithOtherValues = {Texts(last.queries)}
        /\ SuppliedValues \subseteq ParamValues(last.queries[1])

\* a by-year query called with a permit type, a year and an organization
C16_Witness ==
    /\ FilteredQuerySent /\ last.op = "query_documents_by_issue_year"
    /\ last.args.organization = JStr(PPN) /\ last.args.permit_type = JStr(PLO)
    /\ last.args.operator = "greater" /\ Truthy(last.args.year)
    /\ Cardinality(SuppliedValues) = 3
    /\ Len(last.queries[1].text) = 7

\* one of the queries of get_permit_statistics was sent and the gateway raised
StatisticsQueryFailed ==
    /\ QueryReturned /\ last.op = "get_permit_statistics"
    /\ last.args.failAt \in 1..Len(last.queries)

\* C17: when one of the four statistics queries fails, get_permit_statistics
\* raises nothing and returns a structure with total, expired and active
\* count 0, empty by_type and by_organization and an error indicator, whatever
\* the queries before the failed one had counted.
C17_FailureIsZeroed ==
    StatisticsQueryFailed =>
        /\ last.ret.kind = "stats"
        /\ ReturnedEmpty
        /\ "error" \in DOMAIN last.ret
        /\ "generated_at" \notin DOMAIN last.ret

\* the fourth query fails after the first had counted permit entries
C17_Witness ==
    /\ StatisticsQueryFailed /\ last.args.failAt = 4
    /\ Joined(db) # <<>>
    /\ last.ret.total_permits = 0

\* the organizations of the documents that have one which is not null
NonNullOrganizations ==
    {db[i].organization : i \in {j \in 1..Len(db) : IsStr(db[j], "organization")}}

\* get_all_organizations was answered by the gateway
OrganizationsAnswered ==
    /\ QueryReturned /\ last.op = "get_all_organizations"
    /\ last.queries # <<>> /\ last.args.env.up

\* C18: get_all_organizations, when the gateway answers, returns the non-null
\* organization values of the documents, each once, in ascending order.
C18_SortedDistinctOrganizations ==
    OrganizationsAnswered =>
        /\ last.ret.kind = "list"
        /\ {last.ret.rows[i] : i \in 1..Len(last.ret.rows)} = NonNullOrganizations
        /\ Len(last.ret.rows) = Cardinality(NonNullOrganizations)
        /\ \A i \in 1..(Len(last.ret.rows) - 1) :
               StrLess(last.ret.rows[i].s, last.ret.rows[i + 1].s)

\* the dates on which two calls read the clock
ReadingDays(c1, c2) ==
    {c1.now[i].ord : i \in 1..Len(c1.now)} \cup {c2.now[i].ord : i \in 1..Len(c2.now)}

\* C19: a tool invoked again with the same inputs, on the same database and
\* on the same current date, returns the same output as before.
C19_SameCallSameOutput ==
    [][(pc = "returned" /\ pc' = "returned"
        /\ last.op \in ToolOps /\ last'.op = last.op
        /\ last'.args = last.args /\ db' = db
        /\ Cardinality(ReadingDays(last, last')) <= 1)
           => last'.ret = last.ret]_vars

\* C20: across every sequence of calls the process has constructed one client
\* of the record store, whose handle every call uses, the calls of Query
\* Builder operations that are given no handle included.
C20_HandleCreatedOnce == clients = 1

\* the content lookup has returned after the search service answered
ContentAnswered ==
    /\ pc = "returned"
    /\ last.op = "get_permit_document_content"
    /\ last.response.ok

\* C21: the content lookup sends one semantic search (top 10, fields title
\* and content); for a non-empty result set it returns one titled block per
\* document, in the order of the result set; for an empty or absent result
\* set it returns the no-relevant-documents sentence.
C21_ContentBlocks ==
    /\ (pc \in {"awaiting", "returned"} /\ last.op = "get_permit_document_content") =>
          /\ Len(last.searches) = 1
          /\ last.searches[1].search = last.args.keyword
          /\ last.searches[1].queryType = "semantic"
          /\ last.searches[1].top = 10
          /\ last.searches[1].select = <<"title", "content">>
    /\ ContentAnswered =>
          IF "value" \in DOMAIN last.response.json
             /\ last.response.json.value # <<>>
          THEN /\ last.ret.kind = "str"
               /\ last.ret.form = "[title]:\ncontent"
               /\ Len(last.ret.parts) = Len(last.response.json.value)
               /\ \A i \in 1..Len(last.ret.parts) :
                      /\ last.ret.parts[i].content
                           = last.response.json.value[i].content
                      /\ "title" \in DOMAIN last.response.json.value[i] =>
                            last.ret.parts[i].title
                              = last.response.json.value[i].title
          ELSE last.ret
                 = StrVal("No relevant documents found for the query.", <<>>)

\* the search answered two documents and the lookup returned their blocks
C21_Witness ==
    /\ ContentAnswered
    /\ "value" \in DOMAIN last.response.json
    /\ Len(last.response.json.value) = 2
    /\ Len(last.ret.parts) = 2

\* the call's input is valid: a lookup names its permit or installation and
\* the end of the expiring-soon window is a date of the calendar
ValidInput ==
    /\ last.op \in {"query_permit_by_number", "query_permits_by_installation"}
          => Truthy(Identifier)
    /\ last.op = "query_documents_expiring_soon"
          => (last.now[1].ord + last.args.days \in 1..MaxOrdinal)

\* the call was given a handle, or could construct one
GatewayAvailable ==
    last.args.env.container = Handle \/ last.args.env.configured

\* the texts of the count of all entries, of the count of the expired ones,
\* of the grouping by type and of the grouping by organization
StatisticsTexts ==
    << <<SelCount>>,
       <<SelCount, Where, "p.expirationDate < @currentDate", And,
         "c.permitType = 'PLO'">>,
       <<SelByType>>,
       <<SelByOrg>> >>

\* a Query Builder call with valid input that had a gateway has returned
QueriedAndReturned == QueryReturned /\ ValidInput /\ GatewayAvailable

\* the rows of the by-type query cannot all be read: some document has no
\* permitType
TypeRowsUnreadable == \E i \in 1..Len(db) : "permitType" \notin DOMAIN db[i]

\* at most one upstream request is in flight: the search of a suspended
\* content lookup
OneInFlight ==
    pc = "awaiting" => (Len(last.searches) = 1 /\ "queries" \notin DOMAIN last)

\* C22 as stated: no overlapping upstream requests; a list or single-permit
\* operation with valid input sends exactly one query; the statistics send
\* exactly four, in the order total, expired, by type, by organization, and
\* after a query fails no further query of the call is sent.
C22_OneQueryOrFour ==
    /\ OneInFlight
    /\ QueriedAndReturned =>
          IF last.op = "get_permit_statistics"
          THEN Texts(last.queries)
                 = SubSeq(StatisticsTexts, 1,
                          IF last.args.failAt = 0 THEN 4 ELSE last.args.failAt)
          ELSE Len(last.queries) = 1

\* C22, amended: as above, but the statistics send at most four queries:
\* they stop after the query that fails, and after the third query when the
\* rows of the by-type query cannot be read; otherwise they send four.
C22_SequentialQueries ==
    /\ OneInFlight
    /\ QueriedAndReturned =>
          IF last.op = "get_permit_statistics"
          THEN LET limit == IF TypeRowsUnreadable THEN 3 ELSE 4
               IN  Texts(last.queries)
                     = SubSeq(StatisticsTexts, 1,
                              IF last.args.failAt \in 1..limit
                              THEN last.args.failAt ELSE limit)
          ELSE Len(last.queries) = 1

\* the statistics of a database with documents returned after four queries
\* that all succeeded
C22_Witness ==
    /\ QueriedAndReturned
    /\ last.op = "get_permit_statistics"
    /\ last.args.failAt = 0
    /\ db # <<>>
    /\ Len(last.queries) = 4
    /\ "error" \notin DOMAIN last.ret

\* the tools that list permit entries
ListTools ==
    {"get_list_documents_by_issue_year", "get_list_documents_by_expiration_year",
     "get_list_documents_already_expired", "get_list_documents_expiring_soon",
     "get_permits_by_installation"}

\* the no-results sentence of the list tool that was called, for its arguments
NoResultsSentence ==
    IF last.op = "get_list_documents_by_issue_year"
    THEN StrVal("No documents found issued in year {year} with the specified filters.",
                <<last.args.year>>)
    ELSE IF last.op = "get_list_documents_by_expiration_year"
    THEN StrVal("No documents found expiring in year {year} with the specified filters.",
                <<last.args.year>>)
    ELSE IF last.op = "get_list_documents_already_expired"
    THEN StrVal("No expired documents found as of {current_date}.",
                <<Strftime(last.now[1].ord)>>)
    ELSE IF last.op = "get_list_documents_expiring_soon"
    THEN StrVal("No documents expiring within the next {days} days.",
                <<last.args.days>>)
    ELSE StrVal("No permits found for installation '{installation}'.",
                <<last.args.installation>>)

\* a list tool has returned after its query was sent
ListToolQueried ==
    /\ pc = "returned"
    /\ last.op \in ListTools
    /\ last.queries # <<>>

\* the rows the store holds for the query the tool sent
StoredRows == Rows(db, last.queries[1].text, last.queries[1].parameters)

\* C23: a list tool whose query matched nothing and a list tool whose query
\* failed upstream both return the tool's no-results sentence, a text and
\* not an empty structure, so the two cases give the same output.
C23_EmptyAndFailedAlike ==
    (ListToolQueried /\ (~last.args.up \/ StoredRows = <<>>))
        => last.ret = NoResultsSentence

\* the query of a list tool failed upstream although the store holds rows
\* that match it, and the tool returned its no-results sentence
C23_Witness ==
    /\ ListToolQueried
    /\ ~last.args.up
    /\ StoredRows # <<>>
    /\ last.ret = NoResultsSentence

\* C24: in every query sent to the gateway each placeholder of the text has
\* exactly one parameter of its name, and every parameter names a
\* placeholder of the text, whichever optional filters are given.
C24_ParametersMatchPlaceholders ==
    (pc = "returned" /\ last.op \in QueryBuilderOps \cup ToolOps) =>
        \A i \in 1..Len(last.queries) :
            /\ TextPlaceholders(last.queries[i].text)
                 = ParamNames(last.queries[i].parameters)
            /\ Len(last.queries[i].parameters)
                 = Cardinality(ParamNames(last.queries[i].parameters))

\* a by-year query with the three optional filters given was sent with
\* three parameters
C24_Witness ==
    /\ QueryReturned
    /\ last.op \in {"query_documents_by_issue_year",
                    "query_documents_by_expiration_year"}
    /\ last.queries # <<>>
    /\ TextPlaceholders(last.queries[1].text)
         = {"@permitType", "@year", "@organization"}
    /\ Len(last.queries[1].parameters) = 3

\* a by-year query has sent its query
YearQuerySent ==
    /\ QueryReturned
    /\ last.op \in {"query_documents_by_issue_year",
                    "query_documents_by_expiration_year"}
    /\ last.queries # <<>>

\* both a year and an operator are given and truthy
YearAndOperator == Truthy(last.args.year) /\ last.args.operator # None

\* the entries of the database of the permit type and of the organization
\* that are given, of whatever year
OtherFiltersEntries ==
    {i \in 1..Len(Joined(db)) :
        LET c == Joined(db)[i][1]
        IN  /\ Truthy(last.args.permit_type)
                  => "permitType" \in DOMAIN c /\ c.permitType = last.args.permit_type
            /\ Truthy(last.args.organization)
                  => "organization" \in DOMAIN c
                     /\ c.organization = last.args.organization}

\* the conditions on the year a text may carry
YearTexts(f) ==
    IF f = "issueDate"
    THEN {"YEAR(p.issueDate) = @year", "YEAR(p.issueDate) >= @year",
          "YEAR(p.issueDate) <= @year"}
    ELSE {"YEAR(p.expirationDate) = @year", "YEAR(p.expirationDate) >= @year",
          "YEAR(p.expirationDate) <= @year"}

\* the conditions on the year in the text that was sent
YearCondsSent ==
    {t \in {last.queries[1].text[i] : i \in 1..Len(last.queries[1].text)} :
        t \in YearTexts("issueDate") \cup YearTexts("expirationDate")}

\* C25: a by-year query applies its year condition only when year and
\* operator are both given and truthy; otherwise the text has no year
\* condition, no @year parameter is sent and a non-empty result holds the
\* entries of every year; an operator other than 'greater' and 'less' is
\* treated as 'equal'.
C25_YearNeedsOperator ==
    YearQuerySent =>
        /\ ~YearAndOperator =>
              /\ YearCondsSent = {}
              /\ "@year" \notin ParamNames(last.queries[1].parameters)
              /\ (last.ret.kind = "list" /\ last.ret.rows # <<>>)
                    => Len(last.ret.rows) = Cardinality(OtherFiltersEntries)
        /\ YearAndOperator =>
              /\ "@year" \in ParamNames(last.queries[1].parameters)
              /\ ParamValue(last.queries[1].parameters, "@year") = last.args.year
              /\ last.args.operator \notin {"greater", "less"} =>
                    YearCondsSent
                      = {IF DateField = "issueDate"
                         THEN "YEAR(p.issueDate) = @year"
                         ELSE "YEAR(p.expirationDate) = @year"}

\* a year is given without an operator and the result holds an entry of
\* another year
C25_Witness ==
    /\ YearQuerySent
    /\ Truthy(last.args.year) /\ last.args.operator = None
    /\ last.ret.kind = "list"
    /\ \E i \in 1..Len(last.ret.rows) :
           /\ IsDate(last.ret.rows[i], DateField)
           /\ DateYear(last.ret.rows[i][DateField]) # last.args.year.n

\* the rows among which the permit of the rendered details occurs
HoldsPermit(rows, permit) ==
    \E i \in 1..Len(rows) :
        /\ rows[i].permitNumber = permit.permitNumber
        /\ rows[i].documentTitle = permit.documentTitle
        /\ ExpiryOf(rows[i]) = ExpiryOf(permit)

\* C26: at the instant of a get_permit_details call on a PLO entry, the
\* status is Expired exactly when query_expired_documents returns the entry
\* and Expiring Soon exactly when query_documents_expiring_soon with days =
\* 30 returns it; an entry expiring on the current date is not Expired.
C26_ClassificationsAgree ==
    (DetailsRendered
     /\ "permitType" \in DOMAIN last.ret.parts[2]
     /\ last.ret.parts[2].permitType = JStr(PLO)) =>
        LET permit == last.ret.parts[2]
            status == last.ret.parts[3]
            now == last.now[1]
            expired == query_expired_documents(db, Handle, JNull, "latest",
                                               TRUE, TRUE, now).ret.rows
            soon == query_documents_expiring_soon(db, Handle, 30, JNull,
                        "latest", TRUE, TRUE, now, now).ret.rows
        IN  /\ (status = "Expired") = HoldsPermit(expired, permit)
            /\ (status = "Expiring Soon") = HoldsPermit(soon, permit)
            /\ ExpiryOf(permit) = JStr(Strftime(now.ord)) => status # "Expired"

\* the rows of a sequence whose date equals that of row r, in their order
WithDateOf(rows, r) ==
    SelectSeq(rows, LAMBDA x : SortKey(x, DateField) = SortKey(r, DateField))

\* one of the four sorting queries returned after the gateway answered its
\* query
SortedAnswer ==
    /\ ListReturned(SortingOps)
    /\ last.queries # <<>>
    /\ last.args.env.up

\* C27: when the gateway answers the query of the issue-year, expiration-
\* year, expired or expiring-soon operation, the list returned holds the
\* rows the gateway answered, none dropped or added, and the rows of one
\* date in the gateway's order, also when a date is null or absent.
C27_SortKeepsRows ==
    SortedAnswer =>
        LET answered == Rows(db, last.queries[1].text, last.queries[1].parameters)
        IN  /\ Len(last.ret.rows) = Len(answered)
            /\ \A i \in 1..Len(answered) :
                   WithDateOf(last.ret.rows, answered[i])
                     = WithDateOf(answered, answered[i])

====
